---- MODULE Spec2Model ----
(***************************************************************************)
(* Ingestion worker of ethos (backend/src/services/ingestion.ts) together  *)
(* with the upstream client (services/hn.ts) it drives: the polling cycle, *)
(* the per-story / per-comment processing and the background regeneration. *)
(*                                                                         *)
(* An await of the TypeScript code is a step: a pc value names the call    *)
(* the coroutine is suspended on, and the action that leaves the pc models *)
(* the call's outcome plus all synchronous code up to the next await.      *)
(* Consecutive awaits that touch nothing but the LLM and the embedding     *)
(* endpoint (analyze, then embed, then the pacing delay) are one step.     *)
(* The LLM, the embedding endpoint and the vector index are black boxes:   *)
(* a call either succeeds or throws.  Time is counted in hours.            *)
(***************************************************************************)
EXTENDS Integers, Sequences, FiniteSets, TLC

----------------------------------------------------------------------------
(* Configuration (ingestion.ts:29-34, openrouter.ts:26)                    *)

MAX_AGE_HOURS == 8
MAX_STORIES == 0
MAX_COMMENTS_PER_STORY == 0
NEW_COMMENTS_BATCH == 1     \* HN_NEW_COMMENTS_BATCH as set for the exploration
ERRORS_CAP == 50
MIN_COMMENT_LENGTH == 30
ANALYSIS_VERSION == "6"
NoVersion == "null"

(* Bounds of the exploration                                               *)
Hours == {10, 20}   \* the wall-clock readings explored; the first is process start
MaxTicks == 3           \* runCycle invocations explored
MaxRequests == 2        \* queueRegeneration requests explored
MaxEvents == 3          \* runCycle invocations and requests explored, together

----------------------------------------------------------------------------
(* The upstream feed (hn.ts HNItem).  textLen is the length of the         *)
(* stripped text, titleLen the length of the title.                        *)

StoryIds == {1, 2}
CommentIds == {11, 12, 13, 14, 15}

NullItem ==
  [id |-> 0, type |-> "null", time |-> 0, kids |-> <<>>, parent |-> 0,
   deleted |-> FALSE, dead |-> FALSE, titleLen |-> 0, textLen |-> 0,
   score |-> 0, descendants |-> 0]

UpstreamItem(id) ==
  CASE id = 1  -> [NullItem EXCEPT !.id = 1, !.type = "story", !.time = 10,
                   !.kids = <<11, 12, 13, 15>>, !.titleLen = 20]
    [] id = 2  -> [NullItem EXCEPT !.id = 2, !.type = "story", !.time = 0,
                   !.kids = <<14>>, !.titleLen = 12]
    [] id = 11 -> [NullItem EXCEPT !.id = 11, !.type = "comment", !.time = 11,
                   !.parent = 1, !.textLen = 80]
    [] id = 12 -> [NullItem EXCEPT !.id = 12, !.type = "comment", !.time = 12,
                   !.parent = 1, !.textLen = 12]
    [] id = 13 -> [NullItem EXCEPT !.id = 13, !.type = "comment", !.time = 13,
                   !.parent = 1, !.textLen = 45]
    [] id = 14 -> [NullItem EXCEPT !.id = 14, !.type = "comment", !.time = 1,
                   !.parent = 2, !.textLen = 50]
    [] id = 15 -> [NullItem EXCEPT !.id = 15, !.type = "comment", !.time = 14,
                   !.parent = 1, !.textLen = 60, !.dead = TRUE]
    [] OTHER   -> NullItem

(* A second feed: story 1 is flagged dead, candidate 2 is a job posting,   *)
(* and story 1 lists child 12 twice, then 13, a deleted and a dead child.  *)
FlaggedItem(id) ==
  CASE id = 1  -> [NullItem EXCEPT !.id = 1, !.type = "story", !.time = 10,
                   !.kids = <<12, 12, 13, 14, 15>>, !.titleLen = 20,
                   !.dead = TRUE]
    [] id = 2  -> [NullItem EXCEPT !.id = 2, !.type = "job", !.time = 10,
                   !.titleLen = 12]
    [] id = 14 -> [NullItem EXCEPT !.id = 14, !.type = "comment", !.time = 13,
                   !.parent = 1, !.deleted = TRUE]
    [] OTHER   -> UpstreamItem(id)

(* The volatile fields of a story as one fetch may see them.               *)
FirstSeen == [score |-> 0, descendants |-> 0]
Volatile == {[score |-> 0, descendants |-> 0], [score |-> 3, descendants |-> 4]}

(* The two listings as one cycle may see them.                             *)
TopListings == {<<1>>, <<1, 2>>}
NewListings == {<<>>, <<2, 1>>}

----------------------------------------------------------------------------
(* The Item Store (models/Story.ts, models/Comment.ts): each table is the  *)
(* sequence of its rows in insertion order; hnId carries a unique index.   *)

Rows(table, id) == {i \in 1..Len(table) : table[i].hnId = id}

(* A store whose lookups and unique index never see a row.                 *)
HasRow_Never(table, id) == FALSE

HasRow(table, id) == Rows(table, id) # {}

RowOf(table, id) == table[CHOOSE i \in Rows(table, id) : \A j \in Rows(table, id) : i <= j]

(* A table without its unique index.                                       *)
UniqueViolation_Never(table, id) == FALSE

(* Model.create: the unique index on hnId rejects a second row.            *)
UniqueViolation(table, id) == HasRow(table, id)

(* instance.update(values): writes the given fields of the instance's row. *)
UpdateRow(table, id, f(_)) ==
  [i \in 1..Len(table) |-> IF table[i].hnId = id THEN f(table[i]) ELSE table[i]]

NewStoryRow(item) ==
  [hnId |-> item.id, time |-> item.time, titleLen |-> item.titleLen,
   score |-> item.score, descendants |-> item.descendants,
   coreIdea |-> "null", analysisVersion |-> NoVersion, embedded |-> FALSE,
   processedAt |-> -1]

NewCommentRow(ci, storyHnId) ==
  [hnId |-> ci.id, storyHnId |-> storyHnId, parentHnId |-> ci.parent,
   time |-> ci.time, textLen |-> ci.textLen,
   argumentSummary |-> "null", analysisVersion |-> NoVersion, embedded |-> FALSE,
   processedAt |-> -1]

----------------------------------------------------------------------------
VARIABLES
  now,                 \* the last reading of the wall clock, in hours
  stories, comments,   \* the two tables
  storyIndex,          \* ids upserted into the vector index, stories collection
  commentIndex,        \* ids upserted into the vector index, comments collection
  workerState,         \* ingestion.ts:37-49
  workerInterval,      \* TRUE once setInterval has been armed
  cycleRunning,        \* ingestion.ts:332
  cyc,                 \* locals of the runCycle invocation in progress
  regenerationRunning, \* ingestion.ts:381
  regen,               \* locals of the runRegeneration invocation in progress
  lastResponse,        \* what the last queueRegeneration call returned
  ticks, requests,     \* how many runCycle / queueRegeneration calls were made
  activeCycles,        \* runCycle invocations past the guard and not yet finished
  activeRegens,        \* runRegeneration invocations not yet settled
  regenThrew,          \* TRUE once an error has escaped a runRegeneration
  seenRecent,          \* story ids some cycle fetched as a story within the max age
  tooOldFirst,         \* story ids that were past the max age when first fetched
  analysisCalls,       \* ids for which an analysis call was started
  tooOldAgain,         \* ids of tooOldFirst that a later fetch classified again
  commentPass,         \* story ids for which processStoryComments was entered
  capLeft,             \* comment ids a cycle left behind at the new-comments cap
  passedOver,          \* <<id, by>>: an unanalyzed story record that a later
                       \* cycle ("cycle") or regeneration selection ("regen") met
  feed,                \* which upstream feed the worker polls: "live" or "flagged"
  retry,               \* locals of the withRetry invocation in progress
  hn,                  \* locals of the hn.fetchItem invocation in progress
  text,                \* input and results of the text functions applied
  batch                \* locals of the hn.fetchItems invocation in progress

storeVars == <<stories, comments, storyIndex, commentIndex>>
cycleVars == <<workerState, workerInterval, cycleRunning, cyc, ticks, activeCycles>>
regenVars == <<regenerationRunning, regen, lastResponse, requests, regenThrew, activeRegens>>
ghostVars == <<seenRecent, tooOldFirst, tooOldAgain, analysisCalls, commentPass,
               capLeft, passedOver>>
clientVars == <<retry, hn>>
pureVars == <<text, batch>>
vars == <<now, storeVars, cycleVars, regenVars, ghostVars, feed, clientVars,
          pureVars>>

(* The item upstream holds under an id, in the feed polled.                *)
FeedItem(id) == IF feed = "flagged" THEN FlaggedItem(id) ELSE UpstreamItem(id)

----------------------------------------------------------------------------
(* WorkerState and the locals of one cycle                                 *)

NoLabel == [kind |-> "null", id |-> 0]
NoExisting == [found |-> FALSE, score |-> 0, descendants |-> 0]

InitWorkerState ==
  [running |-> FALSE, lastRunAt |-> -1, lastRunResult |-> <<>>,
   totalProcessed |-> 0, totalEmbedded |-> 0, currentlyProcessing |-> NoLabel,
   cycleStartedAt |-> -1, cycleTotal |-> 0, cycleCurrent |-> 0,
   cyclePhase |-> "null", errors |-> <<>>]

CycIdle ==
  [pc |-> "idle", toProcess |-> <<>>, idx |-> 0, hnId |-> 0,
   existing |-> NoExisting, item |-> NullItem,
   ingested |-> 0, skipped |-> 0, tooOld |-> 0, errors |-> 0,
   totalCommentsProcessed |-> 0, totalNewComments |-> 0,
   ctoProcess |-> <<>>, ck |-> 0, existingSet |-> {},
   commentsProcessed |-> 0, newComments |-> 0]

RegenIdle ==
  [pc |-> "idle", versionFilter |-> NoVersion, maxItems |-> 0, type |-> "null",
   list |-> <<>>, k |-> 0, storiesRegenerated |-> 0, commentsRegenerated |-> 0,
   errors |-> <<>>]

(* The locals of withRetry (openrouter.ts:39-83) and of hn.fetchItem       *)
(* (hn.ts:102-120) when no invocation is in progress.                      *)
NoFailure ==
  [kind |-> "none", status |-> 0, provider |-> FALSE, retryAfter |-> 0,
   dated |-> FALSE]

RetryIdle ==
  [pc |-> "idle", maxRetries |-> 0, attempt |-> 0, calls |-> 0, delays |-> <<>>,
   last |-> NoFailure, raised |-> NoFailure]

FetchIdle ==
  [pc |-> "idle", requests |-> 0, delays |-> <<>>, responses |-> <<>>,
   result |-> "none"]

(* No text function applied yet; no fetchItems call in progress.           *)
NoText == [null |-> FALSE, chars |-> <<>>]

TextIdle ==
  [pc |-> "idle", html |-> NoText, untagged |-> <<>>, out |-> <<>>,
   raw |-> <<>>, site |-> "none", record |-> <<>>, index |-> <<>>]

BatchIdle ==
  [pc |-> "idle", ids |-> <<>>, i |-> 0, pending |-> {}, settled |-> {},
   results |-> <<>>]

(* The process after start-up, polling feed f, with error ring ring.       *)
Boot(f, ring) ==
  /\ now = CHOOSE h \in Hours : \A g \in Hours : h <= g
  /\ stories = <<>> /\ comments = <<>>
  /\ storyIndex = {} /\ commentIndex = {}
  /\ workerState = [InitWorkerState EXCEPT !.errors = ring]
  /\ workerInterval = FALSE
  /\ cycleRunning = FALSE
  /\ cyc = CycIdle
  /\ regenerationRunning = FALSE
  /\ regen = RegenIdle
  /\ lastResponse = "none"
  /\ ticks = 0 /\ requests = 0
  /\ activeCycles = 0 /\ activeRegens = 0 /\ regenThrew = FALSE
  /\ seenRecent = {} /\ tooOldFirst = {} /\ analysisCalls = {}
  /\ tooOldAgain = {} /\ commentPass = {} /\ capLeft = {} /\ passedOver = {}
  /\ feed = f
  /\ retry = RetryIdle /\ hn = FetchIdle
  /\ text = TextIdle /\ batch = BatchIdle

Init == Boot("live", <<>>)

(* The worker on the flagged feed.                                         *)
FlaggedInit == Boot("flagged", <<>>)

(* The worker with an error ring one short of full: the store is still     *)
(* empty because every cycle so far failed at its listing fetch.           *)
RingInit ==
  Boot("live", [i \in 1..(ERRORS_CAP - 1) |->
                  [src |-> "cycle", id |-> 0, msg |-> "listing"]])

----------------------------------------------------------------------------
(* Helpers of the ingestion cycle                                          *)

(* An age check that lets every story pass.                                *)
isRecent_Always(dateNow, unixTime) == TRUE

(* isRecent, ingestion.ts:51-54, with dateNow the reading of Date.now()    *)
(* (both sides of the comparison divided by 3 600 000 ms).                 *)
isRecent(dateNow, unixTime) == dateNow - unixTime <= MAX_AGE_HOURS

(* An error list that only grows.                                          *)
PushError_Unbounded(errors, e) == Append(errors, e)

(* workerState.errors.push(e); if (length > 50) shift()                    *)
PushError(errors, e) ==
  LET pushed == Append(errors, e)
  IN  IF Len(pushed) > ERRORS_CAP THEN Tail(pushed) ELSE pushed

(* [...new Set([...topIds, ...newIds])]: first occurrences, in order.      *)
RECURSIVE Dedup(_, _)
Dedup(seq, acc) ==
  IF seq = <<>> THEN acc
  ELSE IF \E i \in 1..Len(acc) : acc[i] = Head(seq)
       THEN Dedup(Tail(seq), acc)
       ELSE Dedup(Tail(seq), Append(acc, Head(seq)))

UniqueIds(topIds, newIds) == Dedup(topIds \o newIds, <<>>)

(* xs.slice(0, limit) when limit > 0, else xs                              *)
Limited(xs, limit) ==
  IF limit > 0 /\ Len(xs) > limit THEN SubSeq(xs, 1, limit) ELSE xs

(* An analysis update that marks the row embedded without its version.    *)
StoryAnalysisUpdate_NoVersion(row) ==
  [row EXCEPT !.coreIdea = "idea", !.embedded = TRUE, !.processedAt = now]

(* The fields the analysis update of a new story writes, ingestion.ts:91.  *)
StoryAnalysisUpdate(row) ==
  [row EXCEPT !.coreIdea = "idea", !.analysisVersion = ANALYSIS_VERSION,
              !.embedded = TRUE, !.processedAt = now]

(* The fields the analysis update of a new comment writes, ingestion.ts:220 *)
CommentAnalysisUpdate(row) ==
  [row EXCEPT !.argumentSummary = "summary", !.analysisVersion = ANALYSIS_VERSION,
              !.embedded = TRUE, !.processedAt = now]

(* A refresh of an existing row that also stamps it as processed.          *)
CachedUpdate_Touch(row, item, existing) ==
  [row EXCEPT !.score = IF item.score # 0 THEN item.score ELSE existing.score,
              !.processedAt = now]

(* existing.update({score: item.score || existing.score, descendants: ...}) *)
CachedUpdate(row, item, existing) ==
  [row EXCEPT !.score = IF item.score # 0 THEN item.score ELSE existing.score,
              !.descendants = IF item.descendants # 0 THEN item.descendants
                              ELSE existing.descendants]

(* A state of the synchronous part of the cycle: the values the three      *)
(* variables it writes will have when the next await is reached.           *)
Ctx(ws, c, running) == [ws |-> ws, cyc |-> c, running |-> running]

(* runIngestionCycle returns; rest of runCycle's try block and its finally *)
(* (ingestion.ts:328, 363-368, 376).                                       *)
FinishCycle(s) ==
  Ctx([s.ws EXCEPT !.lastRunAt = now,
                   !.lastRunResult =
                      <<[ingested |-> s.cyc.ingested, skipped |-> s.cyc.skipped,
                         tooOld |-> s.cyc.tooOld, errors |-> s.cyc.errors,
                         commentsProcessed |-> s.cyc.totalCommentsProcessed,
                         newComments |-> s.cyc.totalNewComments]>>,
                   !.currentlyProcessing = NoLabel,
                   !.cyclePhase = "null"],
      CycIdle, FALSE)

(* Next iteration of the for loop over toProcess (ingestion.ts:281-285):   *)
(* Story.findOne of the next candidate is awaited, or the loop ends.       *)
NextCandidate(s) ==
  IF s.cyc.idx < Len(s.cyc.toProcess)
  THEN Ctx([s.ws EXCEPT !.cycleCurrent = @ + 1],
           [s.cyc EXCEPT !.pc = "sFind", !.idx = @ + 1,
                         !.hnId = s.cyc.toProcess[s.cyc.idx + 1],
                         !.existing = NoExisting, !.item = NullItem,
                         !.ctoProcess = <<>>, !.ck = 0, !.existingSet = {},
                         !.commentsProcessed = 0, !.newComments = 0],
           s.running)
  ELSE FinishCycle(s)

(* A comment pass entered for every candidate that was fetched.            *)
EntersComments_AnyResult(result, item) == item.type # "null"

(* processStoryOnly returned {result, item}: ingestion.ts:286-315.         *)
EntersComments(result, item) ==
  item.type # "null" /\ result \in {"new", "cached"}

AfterStory(s, result, item) ==
  LET c1 == [s.cyc EXCEPT
               !.ingested = IF result = "new" THEN @ + 1 ELSE @,
               !.skipped  = IF result = "cached" THEN @ + 1 ELSE @,
               !.tooOld   = IF result = "too_old" THEN @ + 1 ELSE @,
               !.errors   = IF result = "error" THEN @ + 1 ELSE @,
               !.item     = item]
      ws1 == [s.ws EXCEPT !.totalProcessed = @ + 1]
  IN  IF EntersComments(result, item)
      THEN LET ws2 == [ws1 EXCEPT !.currentlyProcessing =
                                     [kind |-> "comments", id |-> item.id]]
           IN  IF Len(item.kids) = 0
               THEN NextCandidate(Ctx(ws2, c1, s.running))
               ELSE Ctx(ws2, [c1 EXCEPT !.pc = "cFetch"], s.running)
      ELSE NextCandidate(Ctx(ws1, c1, s.running))

(* An error escaped processStoryOnly: catch of ingestion.ts:321-325.       *)
StoryThrew(s) ==
  NextCandidate(Ctx([s.ws EXCEPT !.totalProcessed = @ + 1],
                    [s.cyc EXCEPT !.errors = @ + 1], s.running))

(* The stories some cycle stored and then failed to analyze or embed: the  *)
(* ids of the error-ring entries the catch of ingestion.ts:120-124 pushed  *)
(* for a rejected analyzeStory / generateEmbedding.                        *)
FailedStories(errors) ==
  {errors[i].id : i \in {j \in 1..Len(errors) :
                            errors[j].src = "story" /\ errors[j].msg = "analyze"}}

(* A catch that swallows the failure without an error-ring entry.          *)
StoryAnalysisFailed_Silent(s, msg) ==
  Ctx([s.ws EXCEPT !.totalProcessed = @ + 1], s.cyc, s.running)

(* catch of ingestion.ts:120-124, then line 127.                           *)
StoryAnalysisFailed(s, msg) ==
  Ctx([s.ws EXCEPT !.errors = PushError(@, [src |-> "story", id |-> s.cyc.hnId,
                                             msg |-> msg]),
                   !.totalProcessed = @ + 1],
      s.cyc, s.running)

(* processStoryComments returned: ingestion.ts:198, 310-311.               *)
CommentsDone(s) ==
  NextCandidate(
    Ctx(s.ws,
        [s.cyc EXCEPT !.totalCommentsProcessed = @ + s.cyc.commentsProcessed,
                      !.totalNewComments = @ + s.cyc.newComments],
        s.running))

(* The new-comments cap of ingestion.ts:177.                               *)
CapReached(commentsProcessed, newComments) ==
  NEW_COMMENTS_BATCH > 0 /\ newComments >= NEW_COMMENTS_BATCH

(* The for loop over toProcess of processStoryComments from position k     *)
(* (ingestion.ts:170-182) up to the next Comment.create or the loop's end. *)
RECURSIVE CommentLoop(_, _)
CommentLoop(s, k) ==
  IF k > Len(s.cyc.ctoProcess) THEN CommentsDone(s)
  ELSE IF s.cyc.ctoProcess[k] \in s.cyc.existingSet
       THEN CommentLoop(Ctx(s.ws, [s.cyc EXCEPT !.commentsProcessed = @ + 1],
                            s.running), k + 1)
       ELSE IF CapReached(s.cyc.commentsProcessed, s.cyc.newComments)
            THEN CommentsDone(s)
            ELSE Ctx(s.ws, [s.cyc EXCEPT !.pc = "cCreate", !.ck = k], s.running)

(* processComment returned false: ingestion.ts:183, 191.                   *)
CommentFailed(s) ==
  CommentLoop(Ctx(s.ws, [s.cyc EXCEPT !.commentsProcessed = @ + 1], s.running),
              s.cyc.ck + 1)

Apply(s) ==
  /\ workerState' = s.ws
  /\ cyc' = s.cyc
  /\ cycleRunning' = s.running
  /\ activeCycles' = IF s.cyc.pc = "idle" /\ cyc.pc # "idle"
                     THEN activeCycles - 1 ELSE activeCycles

Here == Ctx(workerState, cyc, cycleRunning)

(* runIngestionCycle's loop continues after processStoryOnly settled.      *)
ApplyStory(s, result, item) ==
  /\ Apply(AfterStory(s, result, item))
  /\ commentPass' = IF EntersComments(result, item)
                    THEN commentPass \cup {item.id} ELSE commentPass

(* processStoryComments' loop continues; when it has ended, the comments   *)
(* of toProcess that still have no row are the ones the cap left behind.   *)
ApplyLoop(s, table) ==
  /\ Apply(s)
  /\ capLeft' = IF s.cyc.pc = "cCreate" THEN capLeft
                ELSE capLeft \cup {cyc.ctoProcess[j] : j \in
                        {i \in 1..Len(cyc.ctoProcess) :
                            ~HasRow(table, cyc.ctoProcess[i])}}

----------------------------------------------------------------------------
(* Scheduling: startBackgroundWorker, the interval timer, runCycle         *)

(* The exploration admits one more runCycle invocation or request.         *)
Budget == ticks + requests < MaxEvents

(* A runCycle without its guard.                                           *)
CycleBusy_Never == FALSE

(* The guard of runCycle, ingestion.ts:352.                                *)
CycleBusy == cycleRunning

(* runCycle up to its first await (ingestion.ts:351-362, 259), called with *)
(* WorkerState ws.                                                         *)
RunCycle(ws) ==
  IF CycleBusy
  THEN /\ workerState' = ws
       /\ UNCHANGED <<cycleRunning, cyc, activeCycles>>
  ELSE /\ cycleRunning' = TRUE
       /\ workerState' = [ws EXCEPT !.cycleStartedAt = now]
       /\ cyc' = [CycIdle EXCEPT !.pc = "listing"]
       /\ activeCycles' = activeCycles + 1

(* startBackgroundWorker, ingestion.ts:334-349: a call on a started worker *)
(* returns at once; the first call runs a cycle and arms the timer.        *)
StartBackgroundWorker ==
  /\ ticks < MaxTicks /\ Budget
  /\ IF workerState.running
     THEN UNCHANGED <<cycleVars>>
     ELSE /\ ticks' = ticks + 1
          /\ RunCycle([workerState EXCEPT !.running = TRUE])
          /\ workerInterval' = TRUE
  /\ UNCHANGED <<now, storeVars, regenVars, ghostVars>>

(* The interval timer fires: setInterval(runCycle, pollInterval).          *)
Tick ==
  /\ workerInterval
  /\ ticks < MaxTicks /\ Budget
  /\ ticks' = ticks + 1
  /\ RunCycle(workerState)
  /\ UNCHANGED <<now, storeVars, workerInterval, regenVars, ghostVars>>

----------------------------------------------------------------------------
(* runIngestionCycle, ingestion.ts:257-329                                 *)

(* Promise.all of the two listing fetches settles (ingestion.ts:259-278).  *)
Listing ==
  /\ cyc.pc = "listing"
  /\ \E topIds \in TopListings, newIds \in NewListings :
       LET toProcess == Limited(UniqueIds(topIds, newIds), MAX_STORIES)
       IN  Apply(NextCandidate(
             Ctx([workerState EXCEPT !.cycleTotal = Len(toProcess),
                                     !.cycleCurrent = 0,
                                     !.cyclePhase = "stories+comments"],
                 [cyc EXCEPT !.toProcess = toProcess, !.idx = 0],
                 cycleRunning)))
  /\ UNCHANGED <<now, storeVars, workerInterval, ticks, regenVars, ghostVars>>

(* A failed cycle that never releases cycleRunning.                        *)
ListingFailed_Stuck ==
  /\ cyc.pc = "listing"
  /\ Apply(Ctx([workerState EXCEPT
                  !.errors = PushError(@, [src |-> "cycle", id |-> 0,
                                           msg |-> "listing"])],
               CycIdle, TRUE))
  /\ UNCHANGED <<now, storeVars, workerInterval, ticks, regenVars, ghostVars>>

(* A listing fetch rejects: catch and finally of runCycle, 369-377.        *)
ListingFailed ==
  /\ cyc.pc = "listing"
  /\ Apply(Ctx([workerState EXCEPT
                  !.currentlyProcessing = NoLabel,
                  !.cyclePhase = "null",
                  !.errors = PushError(@, [src |-> "cycle", id |-> 0,
                                           msg |-> "listing"])],
               CycIdle, FALSE))
  /\ UNCHANGED <<now, storeVars, workerInterval, ticks, regenVars, ghostVars>>

(* processStoryOnly: Story.findOne settles (ingestion.ts:58).              *)
StoryFind ==
  /\ cyc.pc = "sFind"
  /\ cyc' = [cyc EXCEPT
       !.pc = "sFetch",
       !.existing = IF HasRow(stories, cyc.hnId)
                    THEN [found |-> TRUE,
                          score |-> RowOf(stories, cyc.hnId).score,
                          descendants |-> RowOf(stories, cyc.hnId).descendants]
                    ELSE NoExisting]
  /\ UNCHANGED <<now, storeVars, workerState, workerInterval, cycleRunning, ticks,
                 activeCycles, regenVars, ghostVars>>

(* hn.fetchItem settles with null (ingestion.ts:60-61, hn.ts:115-118).     *)
StoryFetchNull ==
  /\ cyc.pc = "sFetch"
  /\ ApplyStory(Here, IF cyc.existing.found THEN "cached" ELSE "error", NullItem)
  /\ UNCHANGED <<now, storeVars, workerInterval, ticks, regenVars,
                 seenRecent, tooOldFirst, tooOldAgain, analysisCalls, capLeft, passedOver>>

(* hn.fetchItem settles with the item, at some clock reading t not before  *)
(* the last one; isRecent reads the clock (ingestion.ts:60-67, 131).       *)
StoryFetch ==
  /\ cyc.pc = "sFetch"
  /\ \E v \in (IF cyc.existing.found THEN Volatile ELSE {FirstSeen}), t \in Hours :
       LET item == [FeedItem(cyc.hnId) EXCEPT !.score = v.score,
                                                  !.descendants = v.descendants]
           old == t - item.time > MAX_AGE_HOURS
       IN  /\ t >= now
           /\ now' = t
           /\ seenRecent' = IF item.type = "story" /\ ~old
                            THEN seenRecent \cup {item.id} ELSE seenRecent
           /\ tooOldFirst' = IF item.type = "story" /\ old /\ ~HasRow(stories, item.id)
                             THEN tooOldFirst \cup {item.id} ELSE tooOldFirst
           /\ tooOldAgain' = IF item.type = "story" /\ old /\ item.id \in tooOldFirst
                             THEN tooOldAgain \cup {item.id} ELSE tooOldAgain
           /\ passedOver' = IF /\ item.type = "story"
                               /\ cyc.existing.found
                               /\ item.id \in FailedStories(workerState.errors)
                            THEN passedOver \cup {<<item.id, "cycle">>} ELSE passedOver
           /\ IF item.type # "story"
              THEN ApplyStory(Here, IF cyc.existing.found THEN "cached" ELSE "error",
                              NullItem)
              ELSE IF ~isRecent(t, item.time)
              THEN ApplyStory(Here, "too_old", item)
              ELSE /\ IF ~cyc.existing.found
                      THEN /\ workerState' = [workerState EXCEPT !.currentlyProcessing =
                                                [kind |-> "story", id |-> item.id]]
                           /\ cyc' = [cyc EXCEPT !.pc = "sCreate", !.item = item]
                      ELSE /\ workerState' = workerState
                           /\ cyc' = [cyc EXCEPT !.pc = "sCached", !.item = item]
                   /\ UNCHANGED <<cycleRunning, activeCycles, commentPass>>
  /\ UNCHANGED <<storeVars, workerInterval, ticks, regenVars,
                 analysisCalls, capLeft>>

(* Story.create settles (ingestion.ts:69-82).                              *)
StoryCreate ==
  /\ cyc.pc = "sCreate"
  /\ IF UniqueViolation(stories, cyc.item.id)
     THEN /\ Apply(StoryThrew(Here))
          /\ UNCHANGED <<stories, analysisCalls, commentPass>>
     ELSE /\ stories' = Append(stories, NewStoryRow(cyc.item))
          /\ IF cyc.item.titleLen + cyc.item.textLen > 0
             THEN /\ cyc' = [cyc EXCEPT !.pc = "sAnalyze"]
                  /\ analysisCalls' = analysisCalls \cup {cyc.item.id}
                  /\ UNCHANGED <<workerState, cycleRunning, activeCycles, commentPass>>
             ELSE /\ ApplyStory(Ctx([workerState EXCEPT !.totalProcessed = @ + 1],
                                    cyc, cycleRunning), "new", cyc.item)
                  /\ UNCHANGED analysisCalls
  /\ UNCHANGED <<now, comments, storyIndex, commentIndex, workerInterval, ticks,
                 regenVars, seenRecent, tooOldFirst, tooOldAgain, capLeft, passedOver>>

(* openrouter.analyzeStory and then openrouter.generateEmbedding resolve;  *)
(* story.update is issued (ingestion.ts:84-91).                            *)
StoryAnalyzed ==
  /\ cyc.pc = "sAnalyze"
  /\ cyc' = [cyc EXCEPT !.pc = "sUpdate"]
  /\ UNCHANGED <<now, storeVars, workerState, workerInterval, cycleRunning, ticks,
                 activeCycles, regenVars, ghostVars>>

(* analyzeStory or generateEmbedding rejects (ingestion.ts:120-128).       *)
StoryAnalysisThrows ==
  /\ cyc.pc = "sAnalyze"
  /\ \E msg \in {"analyze"} :
       ApplyStory(StoryAnalysisFailed(Here, msg), "new", cyc.item)
  /\ UNCHANGED <<now, storeVars, workerInterval, ticks, regenVars,
                 seenRecent, tooOldFirst, tooOldAgain, analysisCalls, capLeft, passedOver>>

(* story.update settles; chroma.addStoryEmbedding is issued (91-106).      *)
StoryUpdate ==
  /\ cyc.pc = "sUpdate"
  /\ stories' = UpdateRow(stories, cyc.item.id, StoryAnalysisUpdate)
  /\ cyc' = [cyc EXCEPT !.pc = "sUpsert"]
  /\ UNCHANGED <<now, comments, storyIndex, commentIndex, workerState, workerInterval,
                 cycleRunning, ticks, activeCycles, regenVars, ghostVars>>

(* chroma.addStoryEmbedding resolves (ingestion.ts:106-119, 127-128).      *)
StoryUpserted ==
  /\ cyc.pc = "sUpsert"
  /\ storyIndex' = storyIndex \cup {cyc.item.id}
  /\ ApplyStory(Ctx([workerState EXCEPT !.totalEmbedded = @ + 1,
                                        !.totalProcessed = @ + 1],
                    cyc, cycleRunning), "new", cyc.item)
  /\ UNCHANGED <<now, stories, comments, commentIndex, workerInterval, ticks,
                 regenVars, seenRecent, tooOldFirst, tooOldAgain, analysisCalls, capLeft, passedOver>>

(* chroma.addStoryEmbedding rejects (ingestion.ts:120-128).                *)
StoryUpsertThrows ==
  /\ cyc.pc = "sUpsert"
  /\ ApplyStory(StoryAnalysisFailed(Here, "chroma"), "new", cyc.item)
  /\ UNCHANGED <<now, storeVars, workerInterval, ticks, regenVars,
                 seenRecent, tooOldFirst, tooOldAgain, analysisCalls, capLeft, passedOver>>

(* existing.update settles (ingestion.ts:131-136).                         *)
StoryCached ==
  /\ cyc.pc = "sCached"
  /\ LET upd(row) == CachedUpdate(row, cyc.item, cyc.existing)
     IN  stories' = UpdateRow(stories, cyc.item.id, upd)
  /\ ApplyStory(Here, "cached", cyc.item)
  /\ UNCHANGED <<now, comments, storyIndex, commentIndex, workerInterval, ticks,
                 regenVars, seenRecent, tooOldFirst, tooOldAgain, analysisCalls, capLeft, passedOver>>

----------------------------------------------------------------------------
(* processStoryComments and processComment, ingestion.ts:140-255           *)

(* The valid comments among the fetched children, in child order (149-151). *)
RECURSIVE ValidComments(_, _)
ValidComments(kids, fetched) ==
  IF kids = <<>> THEN <<>>
  ELSE LET c == FeedItem(Head(kids))
           rest == ValidComments(Tail(kids), fetched)
       IN  IF Head(kids) \in fetched /\ c.type = "comment" /\ ~c.deleted /\ ~c.dead
           THEN <<Head(kids)>> \o rest ELSE rest

(* What hn.fetchItems may return for the children: every child is an item, *)
(* or all but one are (hn.ts:102-131; fetchItem returns null on failure).  *)
FetchOutcomes(kids) ==
  LET all == {kids[i] : i \in 1..Len(kids)}
  IN  {all} \cup {all \ {kids[1]}}

(* hn.fetchItems(item.kids) settles: every child is an item or null;       *)
(* Comment.findAll is issued (ingestion.ts:148-162).                       *)
CommentsFetch ==
  /\ cyc.pc = "cFetch"
  /\ \E fetched \in FetchOutcomes(cyc.item.kids) :
       cyc' = [cyc EXCEPT
                 !.pc = "cFindAll",
                 !.ctoProcess = Limited(ValidComments(cyc.item.kids, fetched),
                                        MAX_COMMENTS_PER_STORY)]
  /\ UNCHANGED <<now, storeVars, workerState, workerInterval, cycleRunning, ticks,
                 activeCycles, regenVars, ghostVars>>

(* Comment.findAll settles; the loop runs to its first new comment (163-182) *)
CommentsFindAll ==
  /\ cyc.pc = "cFindAll"
  /\ ApplyLoop(CommentLoop(
        Ctx(workerState,
            [cyc EXCEPT !.existingSet =
               {cyc.ctoProcess[i] : i \in {j \in 1..Len(cyc.ctoProcess) :
                                              HasRow(comments, cyc.ctoProcess[j])}},
                        !.commentsProcessed = 0, !.newComments = 0],
            cycleRunning), 1), comments)
  /\ UNCHANGED <<now, storeVars, workerInterval, ticks, regenVars,
                 seenRecent, tooOldFirst, tooOldAgain, analysisCalls, commentPass,
                 passedOver>>

(* processComment: Comment.create settles (ingestion.ts:203-215, 249-254). *)
CommentCreate ==
  /\ cyc.pc = "cCreate"
  /\ LET ci == FeedItem(cyc.ctoProcess[cyc.ck])
     IN  IF UniqueViolation(comments, ci.id)
         THEN /\ ApplyLoop(CommentFailed(Here), comments)
              /\ UNCHANGED <<comments, analysisCalls>>
         ELSE /\ comments' = Append(comments, NewCommentRow(ci, cyc.item.id))
              /\ IF ci.textLen > MIN_COMMENT_LENGTH
                 THEN /\ cyc' = [cyc EXCEPT !.pc = "cAnalyze"]
                      /\ analysisCalls' = analysisCalls \cup {ci.id}
                      /\ UNCHANGED <<workerState, cycleRunning, activeCycles, capLeft>>
                 ELSE /\ ApplyLoop(CommentFailed(Here),
                                    Append(comments, NewCommentRow(ci, cyc.item.id)))
                      /\ UNCHANGED analysisCalls
  /\ UNCHANGED <<now, stories, storyIndex, commentIndex, workerInterval, ticks,
                 regenVars, seenRecent, tooOldFirst, tooOldAgain, commentPass, passedOver>>

(* openrouter.analyzeComment and then openrouter.generateEmbedding         *)
(* resolve; comment.update is issued (ingestion.ts:215-220).               *)
CommentAnalyzed ==
  /\ cyc.pc = "cAnalyze"
  /\ cyc' = [cyc EXCEPT !.pc = "cUpdate"]
  /\ UNCHANGED <<now, storeVars, workerState, workerInterval, cycleRunning, ticks,
                 activeCycles, regenVars, ghostVars>>

(* comment.update settles; chroma.addCommentEmbedding is issued (220-233). *)
CommentUpdate ==
  /\ cyc.pc = "cUpdate"
  /\ comments' = UpdateRow(comments, cyc.ctoProcess[cyc.ck], CommentAnalysisUpdate)
  /\ cyc' = [cyc EXCEPT !.pc = "cUpsert"]
  /\ UNCHANGED <<now, stories, storyIndex, commentIndex, workerState, workerInterval,
                 cycleRunning, ticks, activeCycles, regenVars, ghostVars>>

(* chroma.addCommentEmbedding resolves; processComment returns true; the   *)
(* new comment's summary is read back and the loop goes on (233-244,       *)
(* 183-192).                                                               *)
CommentUpserted ==
  /\ cyc.pc = "cUpsert"
  /\ commentIndex' = commentIndex \cup {cyc.ctoProcess[cyc.ck]}
  /\ ApplyLoop(CommentLoop(
        Ctx([workerState EXCEPT !.totalEmbedded = @ + 1],
            [cyc EXCEPT !.newComments = @ + 1, !.commentsProcessed = @ + 1],
            cycleRunning), cyc.ck + 1), comments)
  /\ UNCHANGED <<now, stories, comments, storyIndex, workerInterval, ticks,
                 regenVars, seenRecent, tooOldFirst, tooOldAgain, analysisCalls, commentPass,
                 passedOver>>

(* analyzeComment, generateEmbedding or addCommentEmbedding rejects: the   *)
(* inner catch logs and processComment returns false (245-254).            *)
CommentAnalysisThrows ==
  /\ cyc.pc \in {"cAnalyze", "cUpsert"}
  /\ ApplyLoop(CommentFailed(Here), comments)
  /\ UNCHANGED <<now, storeVars, workerInterval, ticks, regenVars,
                 seenRecent, tooOldFirst, tooOldAgain, analysisCalls, commentPass,
                 passedOver>>

CycleNext ==
  \/ StartBackgroundWorker \/ Tick
  \/ Listing \/ ListingFailed
  \/ StoryFind \/ StoryFetchNull \/ StoryFetch \/ StoryCreate
  \/ StoryAnalyzed \/ StoryAnalysisThrows
  \/ StoryUpdate \/ StoryUpserted \/ StoryUpsertThrows \/ StoryCached
  \/ CommentsFetch \/ CommentsFindAll \/ CommentCreate
  \/ CommentAnalyzed \/ CommentUpdate \/ CommentUpserted
  \/ CommentAnalysisThrows

----------------------------------------------------------------------------
(* Regeneration: queueRegeneration and runRegeneration, ingestion.ts:380-548 *)

(* The request bodies explored, as queueRegeneration receives them from    *)
(* POST /regenerate (admin.ts:207-215: maxItems || 50, type || "all").     *)
RequestBodies ==
  {[type |-> "all",      targetVersion |-> NoVersion, maxItems |-> 50],
   [type |-> "all",      targetVersion |-> "5",       maxItems |-> 1],
   [type |-> "stories",  targetVersion |-> "5",       maxItems |-> 50],
   [type |-> "comments", targetVersion |-> "5",       maxItems |-> 1]}

(* A selection that ignores the stored version.                            *)
NeedsRegen_AnyEmbedded(row, versionFilter) == row.embedded

(* where: embedded, analysisVersion <> versionFilter or null (425-433).    *)
NeedsRegen(row, versionFilter) ==
  row.embedded /\ (row.analysisVersion # versionFilter \/ row.analysisVersion = NoVersion)

(* order: [["time", "DESC"]], limit: maxItems                              *)
RECURSIVE ByTimeDesc(_)
ByTimeDesc(rows) ==
  IF rows = {} THEN <<>>
  ELSE LET newest == CHOOSE r \in rows : \A q \in rows : q.time <= r.time
       IN  <<newest.hnId>> \o ByTimeDesc(rows \ {newest})

FindAllToRegen(table, versionFilter, maxItems) ==
  LET hit == {table[i] : i \in {j \in 1..Len(table) : NeedsRegen(table[j], versionFilter)}}
      sorted == ByTimeDesc(hit)
  IN  IF Len(sorted) > maxItems THEN SubSeq(sorted, 1, maxItems) ELSE sorted

(* story.update of runRegeneration, ingestion.ts:446-458.                  *)
RegenStoryUpdate(row, versionFilter) ==
  [row EXCEPT !.coreIdea = "idea", !.analysisVersion = versionFilter,
              !.processedAt = now]

(* comment.update of runRegeneration, ingestion.ts:514-524.                *)
RegenCommentUpdate(row, versionFilter) ==
  [row EXCEPT !.argumentSummary = "summary", !.analysisVersion = versionFilter,
              !.processedAt = now]

(* runRegeneration settles; the finally of queueRegeneration (396) runs.   *)
RegenSettle ==
  /\ regen' = RegenIdle
  /\ regenerationRunning' = FALSE
  /\ activeRegens' = activeRegens - 1

(* The for loop over commentsToRegen from position k (494-509): comments   *)
(* whose stripped text is too short are skipped; Story.findOne is issued.  *)
RECURSIVE RegenCommentLoop(_, _)
RegenCommentLoop(r, k) ==
  IF k > Len(r.list) THEN RegenIdle
  ELSE IF RowOf(comments, r.list[k]).textLen <= MIN_COMMENT_LENGTH
       THEN RegenCommentLoop(r, k + 1)
       ELSE [r EXCEPT !.pc = "rcAnalyze", !.k = k]

(* Leaves the locals r of the run, or settles it when r is the idle record. *)
RegenGoto(r) ==
  IF r.pc = "idle"
  THEN RegenSettle
  ELSE /\ regen' = r
       /\ UNCHANGED <<regenerationRunning, activeRegens>>

(* The for loop over storiesToRegen from position k (438-441, 480-481).    *)
RegenStoryLoop(r, k) ==
  IF k > Len(r.list)
  THEN IF r.type = "all"
       THEN [r EXCEPT !.pc = "rFindComments", !.list = <<>>, !.k = 0]
       ELSE RegenIdle
  ELSE [r EXCEPT !.pc = "rsAnalyze", !.k = k]

(* A queueRegeneration without its guard.                                  *)
RegenBusy_Never == FALSE

(* The guard of queueRegeneration, ingestion.ts:390.                       *)
RegenBusy == regenerationRunning

(* queueRegeneration, ingestion.ts:383-398, and runRegeneration up to its  *)
(* first await (411-425, 480-481).                                         *)
QueueRegeneration ==
  /\ requests < MaxRequests /\ Budget
  /\ requests' = requests + 1
  /\ \E options \in RequestBodies :
       IF RegenBusy
       THEN /\ lastResponse' = "busy"
            /\ UNCHANGED <<regenerationRunning, regen, activeRegens>>
       ELSE /\ lastResponse' = "queued"
            /\ regenerationRunning' = TRUE
            /\ activeRegens' = activeRegens + 1
            /\ regen' = [RegenIdle EXCEPT
                 !.pc = IF options.type \in {"all", "stories"} THEN "rFindStories"
                        ELSE "rFindComments",
                 !.versionFilter = IF options.targetVersion = NoVersion
                                   THEN ANALYSIS_VERSION ELSE options.targetVersion,
                 !.maxItems = options.maxItems,
                 !.type = options.type]
  /\ UNCHANGED <<now, storeVars, cycleVars, regenThrew, ghostVars>>

(* A rejection that leaves the lock set.                                   *)
RegenEscapes_Locked ==
  /\ regen' = RegenIdle
  /\ UNCHANGED regenerationRunning
  /\ activeRegens' = activeRegens - 1
  /\ regenThrew' = TRUE

(* An error escapes runRegeneration: its promise rejects and the finally   *)
(* of queueRegeneration (396) runs.                                        *)
RegenEscapes ==
  /\ regen' = RegenIdle
  /\ regenerationRunning' = FALSE
  /\ activeRegens' = activeRegens - 1
  /\ regenThrew' = TRUE

(* Story.findAll rejects (ingestion.ts:425): nothing catches it.           *)
RegenFindStoriesThrows ==
  /\ regen.pc = "rFindStories"
  /\ RegenEscapes
  /\ UNCHANGED <<now, storeVars, cycleVars, lastResponse, requests, ghostVars>>

(* Comment.findAll rejects (ingestion.ts:481): nothing catches it.         *)
RegenFindCommentsThrows ==
  /\ regen.pc = "rFindComments"
  /\ RegenEscapes
  /\ UNCHANGED <<now, storeVars, cycleVars, lastResponse, requests, ghostVars>>

(* Story.findAll settles (ingestion.ts:425-438).                           *)
RegenFindStories ==
  /\ regen.pc = "rFindStories"
  /\ LET r == [regen EXCEPT !.list = FindAllToRegen(stories, regen.versionFilter,
                                                    regen.maxItems)]
         next == RegenStoryLoop(r, 1)
     IN  /\ RegenGoto(next)
         /\ analysisCalls' = IF next.pc = "rsAnalyze"
                             THEN analysisCalls \cup {next.list[next.k]}
                             ELSE analysisCalls
         /\ passedOver' = passedOver \cup
               {<<id, "regen">> : id \in {f \in FailedStories(workerState.errors) :
                    \A i \in 1..Len(r.list) : r.list[i] # f}}
  /\ UNCHANGED <<now, storeVars, cycleVars, lastResponse, requests, regenThrew,
                 seenRecent, tooOldFirst, tooOldAgain, commentPass, capLeft>>

(* analyzeStory and then generateEmbedding resolve; story.update is issued *)
(* (ingestion.ts:441-446).                                                 *)
RegenStoryAnalyzed ==
  /\ regen.pc = "rsAnalyze"
  /\ regen' = [regen EXCEPT !.pc = "rsUpdate"]
  /\ UNCHANGED <<now, storeVars, cycleVars, regenerationRunning, lastResponse,
                 requests, regenThrew, activeRegens, ghostVars>>

(* story.update settles; chroma.addStoryEmbedding is issued (446-460).     *)
RegenStoryUpdated ==
  /\ regen.pc = "rsUpdate"
  /\ LET upd(row) == RegenStoryUpdate(row, regen.versionFilter)
     IN  stories' = UpdateRow(stories, regen.list[regen.k], upd)
  /\ regen' = [regen EXCEPT !.pc = "rsUpsert"]
  /\ UNCHANGED <<now, comments, storyIndex, commentIndex, cycleVars,
                 regenerationRunning, lastResponse, requests, regenThrew, activeRegens, ghostVars>>

(* The loop goes on to the next story after one settled (472-477).         *)
RegenStoryNext(r) ==
  LET next == RegenStoryLoop(r, r.k + 1)
  IN  /\ RegenGoto(next)
      /\ analysisCalls' = IF next.pc = "rsAnalyze"
                          THEN analysisCalls \cup {next.list[next.k]}
                          ELSE analysisCalls

(* chroma.addStoryEmbedding resolves (460-473).                            *)
RegenStoryUpserted ==
  /\ regen.pc = "rsUpsert"
  /\ storyIndex' = storyIndex \cup {regen.list[regen.k]}
  /\ RegenStoryNext([regen EXCEPT !.storiesRegenerated = @ + 1])
  /\ UNCHANGED <<now, stories, comments, commentIndex, cycleVars, lastResponse,
                 requests, regenThrew, seenRecent, tooOldFirst, tooOldAgain, commentPass, capLeft, passedOver>>

(* analyzeStory, generateEmbedding or addStoryEmbedding rejects (474-476). *)
RegenStoryThrows ==
  /\ regen.pc \in {"rsAnalyze", "rsUpsert"}
  /\ RegenStoryNext([regen EXCEPT !.errors =
                       Append(@, [src |-> "story", id |-> regen.list[regen.k]])])
  /\ UNCHANGED <<now, storeVars, cycleVars, lastResponse, requests, regenThrew,
                 seenRecent, tooOldFirst, tooOldAgain, commentPass, capLeft, passedOver>>

(* The loop goes on to the comment at position k.                          *)
RegenCommentNext(r, k) ==
  LET next == RegenCommentLoop(r, k)
  IN  /\ RegenGoto(next)
      /\ analysisCalls' = IF next.pc = "rcAnalyze"
                          THEN analysisCalls \cup {next.list[next.k]}
                          ELSE analysisCalls

(* Comment.findAll settles (481-499).                                      *)
RegenFindComments ==
  /\ regen.pc = "rFindComments"
  /\ RegenCommentNext(
        [regen EXCEPT !.list = FindAllToRegen(comments, regen.versionFilter,
                                              regen.maxItems)], 1)
  /\ UNCHANGED <<now, storeVars, cycleVars, lastResponse, requests, regenThrew,
                 seenRecent, tooOldFirst, tooOldAgain, commentPass, capLeft, passedOver>>

(* Story.findOne, the parent's Comment.findOne, analyzeComment and         *)
(* generateEmbedding resolve in turn; comment.update is issued (499-514).  *)
(* A direct child's parent is its story, which is no comment row, so       *)
(* parentContext is undefined.                                             *)
RegenCommentAnalyzed ==
  /\ regen.pc = "rcAnalyze"
  /\ regen' = [regen EXCEPT !.pc = "rcUpdate"]
  /\ UNCHANGED <<now, storeVars, cycleVars, regenerationRunning, lastResponse,
                 requests, regenThrew, activeRegens, ghostVars>>

(* comment.update settles; chroma.addCommentEmbedding is issued (514-526). *)
RegenCommentUpdated ==
  /\ regen.pc = "rcUpdate"
  /\ LET upd(row) == RegenCommentUpdate(row, regen.versionFilter)
     IN  comments' = UpdateRow(comments, regen.list[regen.k], upd)
  /\ regen' = [regen EXCEPT !.pc = "rcUpsert"]
  /\ UNCHANGED <<now, stories, storyIndex, commentIndex, cycleVars,
                 regenerationRunning, lastResponse, requests, regenThrew, activeRegens, ghostVars>>

(* chroma.addCommentEmbedding resolves (526-537).                          *)
RegenCommentUpserted ==
  /\ regen.pc = "rcUpsert"
  /\ commentIndex' = commentIndex \cup {regen.list[regen.k]}
  /\ RegenCommentNext([regen EXCEPT !.commentsRegenerated = @ + 1], regen.k + 1)
  /\ UNCHANGED <<now, stories, comments, storyIndex, cycleVars, lastResponse,
                 requests, regenThrew, seenRecent, tooOldFirst, tooOldAgain, commentPass, capLeft, passedOver>>

(* A lookup, analyzeComment, generateEmbedding or addCommentEmbedding      *)
(* rejects (538-540).                                                      *)
RegenCommentThrows ==
  /\ regen.pc \in {"rcAnalyze", "rcUpsert"}
  /\ RegenCommentNext(
        [regen EXCEPT !.errors = Append(@, [src |-> "comment",
                                            id |-> regen.list[regen.k]])],
        regen.k + 1)
  /\ UNCHANGED <<now, storeVars, cycleVars, lastResponse, requests, regenThrew,
                 seenRecent, tooOldFirst, tooOldAgain, commentPass, capLeft, passedOver>>

RegenNext ==
  \/ QueueRegeneration
  \/ RegenFindStories \/ RegenFindStoriesThrows \/ RegenStoryAnalyzed
  \/ RegenStoryUpdated \/ RegenStoryUpserted \/ RegenStoryThrows
  \/ RegenFindComments \/ RegenFindCommentsThrows \/ RegenCommentAnalyzed
  \/ RegenCommentUpdated \/ RegenCommentUpserted
  \/ RegenCommentThrows

----------------------------------------------------------------------------
(* The analysis client's retry wrapper, openrouter.ts:39-83                *)

(* How a wrapped call may reject: an HTTP error response (with its status, *)
(* whether the error body names a provider, and the Retry-After header:    *)
(* the seconds to wait, given as a number or, when dated, as the HTTP-date *)
(* that lies so many seconds ahead), a timeout without response, or a body *)
(* parseJsonResponse cannot parse (openrouter.ts:12-23, thrown inside the  *)
(* wrapped call).                                                          *)
Failures ==
  {[kind |-> "http", status |-> 429, provider |-> FALSE, retryAfter |-> 60,
    dated |-> TRUE]} \cup
  {[kind |-> "http", status |-> 429, provider |-> FALSE, retryAfter |-> 0, dated |-> FALSE],
   [kind |-> "http", status |-> 429, provider |-> FALSE, retryAfter |-> 60, dated |-> FALSE],
   [kind |-> "http", status |-> 500, provider |-> FALSE, retryAfter |-> 0, dated |-> FALSE],
   [kind |-> "http", status |-> 400, provider |-> TRUE,  retryAfter |-> 0, dated |-> FALSE],
   [kind |-> "http", status |-> 400, provider |-> FALSE, retryAfter |-> 0, dated |-> FALSE],
   [kind |-> "http", status |-> 404, provider |-> FALSE, retryAfter |-> 0, dated |-> FALSE],
   [kind |-> "timeout", status |-> 0, provider |-> FALSE, retryAfter |-> 0, dated |-> FALSE],
   [kind |-> "parse", status |-> 0, provider |-> FALSE, retryAfter |-> 0, dated |-> FALSE]}

(* throw new Error("Max retries exceeded"), openrouter.ts:82               *)
MaxRetriesExceeded ==
  [kind |-> "exceeded", status |-> 0, provider |-> FALSE, retryAfter |-> 0, dated |-> FALSE]

(* The maxRetries arguments explored; callers use the default, 4.          *)
RetryCaps == {1, 4}

RECURSIVE Pow2(_)
Pow2(n) == IF n = 0 THEN 1 ELSE 2 * Pow2(n - 1)

Max(a, b) == IF a >= b THEN a ELSE b

(* parseInt(headers["retry-after"] || "0") is NaN when the header is an    *)
(* HTTP-date, and then so are retryAfter and Math.max(retryAfter, ...)     *)
(* (openrouter.ts:62-63).                                                  *)
RetryAfterIsNaN(failure) == failure.dated

(* setTimeout(r, NaN) fires after the timer's minimum delay, in ms (65).   *)
TIMER_MIN_MS == 1

(* A retry branch that is taken at the cap as well.                        *)
MayRetry_Always(attempt, maxRetries) == TRUE

(* attempt < maxRetries, the condition of every retry branch (48, 61, 68). *)
MayRetry(attempt, maxRetries) == attempt < maxRetries

(* The catch block of withRetry (44-79): the delay in ms before the next   *)
(* attempt, or -1 when the error is thrown to the caller.                  *)
RetryDelay(failure, attempt, maxRetries) ==
  IF failure.status = 400 /\ failure.provider /\ MayRetry(attempt, maxRetries)
  THEN 2000 * (attempt + 1)
  ELSE IF failure.status = 429 /\ MayRetry(attempt, maxRetries)
  THEN IF RetryAfterIsNaN(failure) THEN TIMER_MIN_MS
       ELSE Max(failure.retryAfter * 1000, 3000 * Pow2(attempt))
  ELSE IF MayRetry(attempt, maxRetries) /\ failure.status # 0
          /\ failure.status >= 500
  THEN 2000 * Pow2(attempt)
  ELSE -1

(* A loop that does not advance its counter.                               *)
NextAttempt_Stuck(attempt) == attempt

(* attempt++ of the for loop (40).                                         *)
NextAttempt(attempt) == attempt + 1

(* withRetry(fn, maxRetries) is called: the first fn() is issued (39-42).  *)
WithRetryCall ==
  /\ retry.pc = "idle"
  /\ \E m \in RetryCaps :
       retry' = [RetryIdle EXCEPT !.pc = "call", !.maxRetries = m]
  /\ UNCHANGED hn

(* fn() resolves: its value is returned (42).                              *)
FnResolves ==
  /\ retry.pc = "call"
  /\ retry' = [retry EXCEPT !.pc = "returned", !.calls = @ + 1]
  /\ UNCHANGED hn

(* fn() rejects: the catch block backs off or rethrows (43-80).            *)
FnRejects ==
  /\ retry.pc = "call"
  /\ \E f \in Failures :
       LET delay == RetryDelay(f, retry.attempt, retry.maxRetries)
       IN  retry' = IF delay >= 0
                    THEN [retry EXCEPT !.pc = "wait", !.calls = @ + 1, !.last = f,
                                       !.delays = Append(@, delay)]
                    ELSE [retry EXCEPT !.pc = "raised", !.calls = @ + 1, !.last = f,
                                       !.raised = f]
  /\ UNCHANGED hn

(* The backoff timer fires; continue: the loop issues fn() again, or ends  *)
(* and line 82 throws.                                                     *)
DelayElapsed ==
  /\ retry.pc = "wait"
  /\ LET a == NextAttempt(retry.attempt)
     IN  retry' = IF a <= retry.maxRetries
                  THEN [retry EXCEPT !.pc = "call", !.attempt = a]
                  ELSE [retry EXCEPT !.pc = "raised", !.attempt = a,
                                     !.raised = MaxRetriesExceeded]
  /\ UNCHANGED hn

----------------------------------------------------------------------------
(* The upstream client's item fetch, hn.ts:102-120                         *)

(* How one axios.get of an item may settle: with the item, with a null     *)
(* body, with an HTTP error status, or without a response (status 0).      *)
Responses ==
  {[ok |-> TRUE,  status |-> 200, data |-> "item"],
   [ok |-> TRUE,  status |-> 200, data |-> "null"],
   [ok |-> FALSE, status |-> 429, data |-> "null"],
   [ok |-> FALSE, status |-> 500, data |-> "null"],
   [ok |-> FALSE, status |-> 503, data |-> "null"],
   [ok |-> FALSE, status |-> 404, data |-> "null"],
   [ok |-> FALSE, status |-> 0,   data |-> "null"]}

(* The fixed backoff before the one retry, hn.ts:110, in ms.               *)
FETCH_BACKOFF_MS == 2000

(* A fetch that gives up on every failure.                                 *)
FetchRetryable_Never(status) == FALSE

(* status === 429 || (status && status >= 500), hn.ts:108                  *)
FetchRetryable(status) == status = 429 \/ (status # 0 /\ status >= 500)

(* fetchItem(id) is called: the first request is issued (102-104).         *)
FetchItemCall ==
  /\ hn.pc = "idle"
  /\ hn' = [FetchIdle EXCEPT !.pc = "first", !.requests = 1]
  /\ UNCHANGED retry

(* The first request settles (104-118).                                    *)
FetchFirstSettles ==
  /\ hn.pc = "first"
  /\ \E r \in Responses :
       hn' = IF r.ok
             THEN [hn EXCEPT !.pc = "done", !.responses = Append(@, r),
                             !.result = r.data]
             ELSE IF FetchRetryable(r.status)
             THEN [hn EXCEPT !.pc = "backoff", !.responses = Append(@, r)]
             ELSE [hn EXCEPT !.pc = "done", !.responses = Append(@, r),
                             !.result = "null"]
  /\ UNCHANGED retry

(* The backoff timer fires; the second request is issued (110-112).        *)
FetchBackoffElapsed ==
  /\ hn.pc = "backoff"
  /\ hn' = [hn EXCEPT !.pc = "second", !.requests = @ + 1,
                      !.delays = Append(@, FETCH_BACKOFF_MS)]
  /\ UNCHANGED retry

(* The second request settles (112-116).                                   *)
FetchSecondSettles ==
  /\ hn.pc = "second"
  /\ \E r \in Responses :
       hn' = [hn EXCEPT !.pc = "done", !.responses = Append(@, r),
                        !.result = IF r.ok THEN r.data ELSE "null"]
  /\ UNCHANGED retry

----------------------------------------------------------------------------
(* The text functions, ingestion.ts:8-27.  A string is the sequence of its *)
(* characters.                                                             *)

(* The inputs explored: concatenations of at most MaxChunks of the chunks. *)
MaxChunks == 4

Chunks ==
  {<<"<">>, <<">">>, <<" ">>, <<"\n">>, <<"a">>,
   <<"&", "l", "t", ";">>, <<"&", "g", "t", ";">>,
   <<"&", "a", "m", "p", ";">>, <<"l", "t", ";">>}

RECURSIVE Flatten(_)
Flatten(seqs) == IF seqs = <<>> THEN <<>> ELSE Head(seqs) \o Flatten(Tail(seqs))

HtmlInputs ==
  {[null |-> TRUE, chars |-> <<>>]} \cup
  {[null |-> FALSE, chars |-> Flatten(cs)] :
      cs \in UNION {[1..n -> Chunks] : n \in 0..MaxChunks}}

(* \s of the regular expressions, and the characters trim() removes.       *)
IsSpace(c) == c \in {" ", "\n"}

(* .replace(/<[^>]*>/g, " "): from a "<" up to the first ">" after it.     *)
RECURSIVE ReplaceTags(_)
ReplaceTags(s) ==
  IF s = <<>> THEN <<>>
  ELSE IF Head(s) = "<" /\ \E j \in 2..Len(s) : s[j] = ">"
       THEN LET j == CHOOSE k \in 2..Len(s) :
                        s[k] = ">" /\ \A m \in 2..(k - 1) : s[m] # ">"
            IN  <<" ">> \o ReplaceTags(SubSeq(s, j + 1, Len(s)))
       ELSE <<Head(s)>> \o ReplaceTags(Tail(s))

(* .replace(/pat/g, rep) for a literal pattern.                            *)
RECURSIVE ReplaceAll(_, _, _)
ReplaceAll(s, pat, rep) ==
  IF Len(s) < Len(pat) THEN s
  ELSE IF SubSeq(s, 1, Len(pat)) = pat
       THEN rep \o ReplaceAll(SubSeq(s, Len(pat) + 1, Len(s)), pat, rep)
       ELSE <<Head(s)>> \o ReplaceAll(Tail(s), pat, rep)

(* The six entity replacements of stripHtml, in their order (12-17).       *)
DecodeEntities(s) ==
  LET s1 == ReplaceAll(s,  <<"&", "a", "m", "p", ";">>, <<"&">>)
      s2 == ReplaceAll(s1, <<"&", "l", "t", ";">>, <<"<">>)
      s3 == ReplaceAll(s2, <<"&", "g", "t", ";">>, <<">">>)
      s4 == ReplaceAll(s3, <<"&", "q", "u", "o", "t", ";">>, <<"\"">>)
      s5 == ReplaceAll(s4, <<"&", "#", "x", "2", "7", ";">>, <<"'">>)
  IN  ReplaceAll(s5, <<"&", "#", "x", "2", "F", ";">>, <<"/">>)

RECURSIVE DropSpaces(_)
DropSpaces(s) ==
  IF s # <<>> /\ IsSpace(Head(s)) THEN DropSpaces(Tail(s)) ELSE s

(* .replace(/\s+/g, " ")                                                   *)
RECURSIVE CollapseSpaces(_)
CollapseSpaces(s) ==
  IF s = <<>> THEN <<>>
  ELSE IF IsSpace(Head(s))
       THEN <<" ">> \o CollapseSpaces(DropSpaces(Tail(s)))
       ELSE <<Head(s)>> \o CollapseSpaces(Tail(s))

RECURSIVE DropTrailingSpaces(_)
DropTrailingSpaces(s) ==
  IF s # <<>> /\ IsSpace(s[Len(s)])
  THEN DropTrailingSpaces(SubSeq(s, 1, Len(s) - 1)) ELSE s

(* A trim of the leading end only.                                         *)
Trim_Leading(s) == DropSpaces(s)

(* .trim()                                                                 *)
Trim(s) == DropTrailingSpaces(DropSpaces(s))

(* stripHtml, ingestion.ts:8-20: "" for null, undefined and "".            *)
stripHtml(html) ==
  IF html.null \/ html.chars = <<>> THEN <<>>
  ELSE Trim(CollapseSpaces(DecodeEntities(ReplaceTags(html.chars))))

(* stripHtml is applied to some input; untagged is the text after the      *)
(* first replace.                                                          *)
StripHtmlCall ==
  /\ text.pc = "idle"
  /\ \E html \in HtmlInputs :
       text' = [text EXCEPT !.pc = "stripped", !.html = html,
                            !.untagged = IF html.null THEN <<>>
                                         ELSE ReplaceTags(html.chars),
                            !.out = stripHtml(html)]

(* The concept lists an analysis may return: at most MaxConcepts strings   *)
(* of at most MaxConceptLen characters.                                    *)
MaxConcepts == 2
MaxConceptLen == 3

ConceptChars == {"A", "a", "_", " ", "\n"}

RawConcepts ==
  LET strings == UNION {[1..n -> ConceptChars] : n \in 0..MaxConceptLen}
  IN  UNION {[1..n -> strings] : n \in 0..MaxConcepts}

(* c.toLowerCase()                                                         *)
ToLowerCase(s) == [i \in 1..Len(s) |-> IF s[i] = "A" THEN "a" ELSE s[i]]

NonEmpty(c) == Len(c) > 0

(* normalizeConcepts, ingestion.ts:23-27.                                  *)
normalizeConcepts(concepts) ==
  SelectSeq([i \in 1..Len(concepts) |->
               Trim(CollapseSpaces(ReplaceAll(ToLowerCase(concepts[i]),
                                              <<"_">>, <<" ">>)))],
            NonEmpty)

(* An analysis call resolves with its concepts list.                       *)
AnalysisReturnsConcepts ==
  /\ text.pc = "idle"
  /\ \E raw \in RawConcepts : text' = [text EXCEPT !.pc = "analyzed", !.raw = raw]

(* What one processing site writes of the list: to the record's concepts   *)
(* field and to the concepts metadata of the vector-index entry.           *)
StoreConcepts(site, record, index) ==
  /\ text.pc = "analyzed"
  /\ text' = [text EXCEPT !.pc = "stored", !.site = site, !.record = record,
                          !.index = index]

(* processStoryOnly, ingestion.ts:85, 93, 113.                             *)
IngestStoryConcepts ==
  StoreConcepts("processStoryOnly", normalizeConcepts(text.raw), text.raw)

(* processComment, ingestion.ts:216, 222, 239.                             *)
IngestCommentConcepts ==
  LET concepts == normalizeConcepts(text.raw)
  IN  StoreConcepts("processComment", concepts, concepts)

(* runRegeneration, stories, ingestion.ts:442, 448, 467.                   *)
RegenStoryConcepts ==
  LET concepts == normalizeConcepts(text.raw)
  IN  StoreConcepts("regenStory", concepts, concepts)

(* runRegeneration, comments, ingestion.ts:510, 516, 532.                  *)
RegenCommentConcepts ==
  LET concepts == normalizeConcepts(text.raw)
  IN  StoreConcepts("regenComment", concepts, concepts)

(* The text functions on their own.                                        *)
TextNext ==
  /\ \/ StripHtmlCall \/ AnalysisReturnsConcepts
     \/ IngestStoryConcepts \/ IngestCommentConcepts
     \/ RegenStoryConcepts \/ RegenCommentConcepts
  /\ UNCHANGED <<now, storeVars, cycleVars, regenVars, ghostVars, feed,
                 clientVars, batch>>

----------------------------------------------------------------------------
(* The upstream client's batch fetch, hn.ts:123-131                        *)

(* The chunk width (hn.ts:63 sets 20) and the longest id list explored.    *)
BATCH_SIZE == 2
MaxIds == 5

(* A loop that takes all the remaining ids as one chunk.                   *)
BatchOf_AllRemaining(ids, i) == (i + 1)..Len(ids)

(* ids.slice(i, i + BATCH_SIZE), as positions of ids (126).                *)
BatchOf(ids, i) ==
  (i + 1)..(IF i + BATCH_SIZE < Len(ids) THEN i + BATCH_SIZE ELSE Len(ids))

(* What fetchItem(id) resolved with: the item (its id) or null (0).        *)
Fetched(ids, settled, p) ==
  IF <<p, "item">> \in settled THEN ids[p] ELSE 0

(* fetchItems(ids) is called: the requests of the first chunk are issued,  *)
(* or the empty list is returned (123-127).                                *)
FetchItemsCall ==
  /\ batch.pc = "idle"
  /\ \E n \in 0..MaxIds :
       LET ids == [k \in 1..n |-> 100 + k]
       IN  batch' = IF n = 0
                    THEN [BatchIdle EXCEPT !.pc = "returned"]
                    ELSE [BatchIdle EXCEPT !.pc = "waiting", !.ids = ids,
                                           !.pending = BatchOf(ids, 0)]

(* One fetchItem of the chunk resolves, with the item or with null; when   *)
(* it was the last one, Promise.all resolves with the chunk's results in   *)
(* the order of the chunk, they are pushed, and the next chunk is issued   *)
(* or the results are returned (125-130).                                  *)
FetchItemSettles ==
  /\ batch.pc = "waiting"
  /\ \E p \in batch.pending, r \in {"item", "null"} :
       LET settled == batch.settled \cup {<<p, r>>}
           pending == batch.pending \ {p}
           last == IF batch.i + BATCH_SIZE < Len(batch.ids)
                   THEN batch.i + BATCH_SIZE ELSE Len(batch.ids)
           results == batch.results \o
                        [k \in 1..(last - batch.i) |->
                           Fetched(batch.ids, settled, batch.i + k)]
           i == batch.i + BATCH_SIZE
       IN  batch' =
             IF pending # {}
             THEN [batch EXCEPT !.pending = pending, !.settled = settled]
             ELSE IF i < Len(batch.ids)
             THEN [batch EXCEPT !.pending = BatchOf(batch.ids, i), !.i = i,
                                !.settled = settled, !.results = results]
             ELSE [batch EXCEPT !.pc = "returned", !.pending = {}, !.i = i,
                                !.settled = settled, !.results = results]

(* The batch fetch on its own.                                             *)
BatchNext ==
  /\ FetchItemsCall \/ FetchItemSettles
  /\ UNCHANGED <<now, storeVars, cycleVars, regenVars, ghostVars, feed,
                 clientVars, text>>

(* The steps of the two clients; the worker is at rest.                    *)
ClientNext ==
  /\ \/ WithRetryCall \/ FnResolves \/ FnRejects \/ DelayElapsed
     \/ FetchItemCall \/ FetchFirstSettles \/ FetchBackoffElapsed
     \/ FetchSecondSettles
  /\ UNCHANGED <<now, storeVars, cycleVars, regenVars, ghostVars, feed,
                 pureVars>>

(* The steps of the worker; the feed is fixed and no client call is        *)
(* stepped on its own.                                                     *)
Next ==
  /\ CycleNext \/ RegenNext
  /\ UNCHANGED <<feed, clientVars, pureVars>>

Spec == Init /\ [][Next]_vars

(* The worker polling the flagged feed.                                    *)
FlaggedSpec == FlaggedInit /\ [][Next]_vars

(* The worker starting with an error ring one short of full.               *)
RingSpec == RingInit /\ [][Next]_vars

(* The two clients on their own.                                           *)
ClientSpec == Init /\ [][ClientNext]_vars

(* The text functions applied to the inputs explored.                      *)
TextSpec == Init /\ [][TextNext]_vars

(* One fetchItems call.                                                    *)
BatchSpec == Init /\ [][BatchNext]_vars

----------------------------------------------------------------------------
(* Properties of the ingestion worker                                      *)

(* A step of the cycle coroutine.                                          *)
CycleStep == cyc' # cyc

(* The summary counters as they stand after a step: in the cycle's locals, *)
(* or in lastRunResult when the step completed the cycle.                  *)
TooOldAfter ==
  IF cyc'.pc = "idle" THEN workerState'.lastRunResult[1].tooOld ELSE cyc'.tooOld

NewCommentsAfter ==
  IF cyc'.pc = "idle" THEN workerState'.lastRunResult[1].newComments
  ELSE cyc'.totalNewComments

(* The step ends the turn of the candidate cyc.hnId.                       *)
StoryTurnEnds ==
  /\ cyc.pc \notin {"idle", "listing"}
  /\ cyc'.pc = "idle" \/ cyc'.idx # cyc.idx

(* The id a cycle, or a regeneration run, has between the start of its     *)
(* analysis and the end of its vector-index upsert.                        *)
CycleInFlight ==
  IF cyc.pc \in {"sAnalyze", "sUpdate", "sUpsert"} THEN {cyc.item.id}
  ELSE IF cyc.pc \in {"cAnalyze", "cUpdate", "cUpsert"}
       THEN {cyc.ctoProcess[cyc.ck]} ELSE {}

RegenInFlight ==
  IF regen.pc \in {"rsAnalyze", "rsUpdate", "rsUpsert",
                   "rcAnalyze", "rcUpdate", "rcUpsert"}
  THEN {regen.list[regen.k]} ELSE {}

(* C1: at most one ingestion cycle runs at any time, and a runCycle        *)
(* invocation that finds cycleRunning set starts no cycle and changes no   *)
(* WorkerState field, no local of the running cycle and no stored record.  *)
C1_SingleCycle ==
  [][ /\ activeCycles' <= 1
      /\ (ticks' # ticks /\ cycleRunning) =>
            UNCHANGED <<workerState, cyc, cycleRunning, activeCycles, storeVars>>
    ]_vars

(* C1 witness: two runCycle invocations were made and the first cycle has  *)
(* neither completed nor failed, so the second one found it running.       *)
C1_BusyTick ==
  /\ ticks >= 2 /\ cycleRunning /\ activeCycles = 1
  /\ workerState.lastRunAt = -1 /\ workerState.errors = <<>>

(* C2: at most one regeneration run is active at any time; a request that  *)
(* finds regenerationRunning set is answered busy, starts nothing and      *)
(* leaves the run and the store alone; a request that finds it clear is    *)
(* answered queued and starts exactly one run; no run starts except at a   *)
(* request, so a refused request is not taken up later.                    *)
C2_SingleRegeneration ==
  [][ /\ activeRegens' <= 1
      /\ (requests' # requests) =>
            IF regenerationRunning
            THEN /\ lastResponse' = "busy"
                 /\ UNCHANGED <<regen, regenerationRunning, activeRegens, storeVars>>
            ELSE /\ lastResponse' = "queued"
                 /\ regenerationRunning'
                 /\ activeRegens' = activeRegens + 1
      /\ (activeRegens' > activeRegens) =>
            (requests' # requests /\ ~regenerationRunning)
    ]_vars

(* C2 witness: the second request was refused while the first run was      *)
(* active; that run has since settled and no other has started.            *)
C2_RefusedAndForgotten ==
  /\ requests = 2 /\ lastResponse = "busy"
  /\ ~regenerationRunning /\ regen.pc = "idle" /\ activeRegens = 0

(* C3: a cycle and a regeneration run are never both between the start of  *)
(* analysis and the end of the vector-index upsert of the same story or    *)
(* comment id.                                                             *)
C3_NoConcurrentProcessing == CycleInFlight \cap RegenInFlight = {}

(* C4: no two Story rows and no two Comment rows share an hnId, and every  *)
(* story some cycle fetched within the maximum age has exactly one row as  *)
(* soon as the Story.create of that first observation has settled.         *)
C4_OneRecordPerId ==
  /\ \A i, j \in 1..Len(stories) : stories[i].hnId = stories[j].hnId => i = j
  /\ \A i, j \in 1..Len(comments) : comments[i].hnId = comments[j].hnId => i = j
  /\ \A id \in seenRecent :
        \/ cyc.pc = "sCreate" /\ cyc.hnId = id
        \/ Cardinality(Rows(stories, id)) = 1

(* C4 witness: a second cycle has completed after observing story 1 again  *)
(* (it refreshed the score, which only the cached path does).              *)
C4_ObservedTwice ==
  /\ ticks >= 2 /\ cyc.pc = "idle" /\ 1 \in seenRecent
  /\ Cardinality(Rows(stories, 1)) = 1
  /\ RowOf(stories, 1).score = 3
  /\ workerState.lastRunResult # <<>> /\ workerState.lastRunResult[1].skipped = 1

(* C5: every Story row and every Comment row has embedded = true exactly   *)
(* when its analysisVersion is not null.                                   *)
C5_EmbeddedIffVersion ==
  /\ \A i \in 1..Len(stories) :
        stories[i].embedded <=> stories[i].analysisVersion # NoVersion
  /\ \A i \in 1..Len(comments) :
        comments[i].embedded <=> comments[i].analysisVersion # NoVersion

(* C5 witness: a story whose vector-index upsert failed, a comment that a  *)
(* regeneration run moved to another version, and a comment left           *)
(* unanalyzed are all stored.                                              *)
C5_AfterFailuresAndRegeneration ==
  /\ \E i \in 1..Len(stories) :
        stories[i].embedded /\ stories[i].hnId \notin storyIndex
  /\ \E i \in 1..Len(comments) :
        comments[i].embedded /\ comments[i].analysisVersion = "5"
  /\ \E i \in 1..Len(comments) : ~comments[i].embedded

(* C6: a story that was past the maximum age when first fetched never has  *)
(* a row, no analysis call is made for it, processStoryComments is never   *)
(* entered for it and no comment is stored under it; each fetch that finds *)
(* it so counts it as too_old.                                             *)
C6_TooOldNeverStored ==
  [][ /\ \A id \in tooOldFirst' :
            /\ ~HasRow(stories', id)
            /\ id \notin analysisCalls'
            /\ id \notin commentPass'
            /\ \A i \in 1..Len(comments') : comments'[i].storyHnId # id
      /\ (tooOldFirst' # tooOldFirst \/ tooOldAgain' # tooOldAgain) =>
            TooOldAfter = cyc.tooOld + 1
    ]_vars

(* C6 witness: story 2 was too old at its first fetch and a later cycle    *)
(* fetched it again and has completed.                                     *)
C6_ObservedAgain ==
  /\ 2 \in tooOldFirst /\ 2 \in tooOldAgain /\ cyc.pc = "idle"

(* C7: a cycle starts analysis only for a row it has just created; for a   *)
(* story whose row existed when the cycle looked it up, the cycle's steps  *)
(* change nothing of that row but score and descendants, and they leave    *)
(* the rows of the comments found existing as they are.                    *)
C7_ExistingNotReanalyzed ==
  [][ CycleStep =>
        /\ (cyc'.pc = "sAnalyze" /\ cyc.pc # "sAnalyze") =>
              ~HasRow(stories, cyc'.hnId)
        /\ (cyc'.pc = "cAnalyze" /\ cyc.pc # "cAnalyze") =>
              ~HasRow(comments, cyc'.ctoProcess[cyc'.ck])
        /\ cyc'.existing.found =>
              cyc'.pc \notin {"sCreate", "sAnalyze", "sUpdate", "sUpsert"}
        /\ cyc'.pc \in {"cCreate", "cAnalyze", "cUpdate", "cUpsert"} =>
              cyc'.ctoProcess[cyc'.ck] \notin cyc'.existingSet
        /\ cyc.existing.found =>
              /\ Len(stories') = Len(stories)
              /\ \A i \in 1..Len(stories) :
                    stories[i].hnId = cyc.hnId =>
                       stories'[i] = [stories[i] EXCEPT
                                        !.score = stories'[i].score,
                                        !.descendants = stories'[i].descendants]
        /\ \A i \in 1..Len(comments) :
              comments[i].hnId \in cyc.existingSet => comments'[i] = comments[i]
    ]_vars

(* C7 witness: a cycle refreshed the score of an existing story and is now *)
(* past an existing comment of it, about to create the next one.           *)
C7_CachedRefreshed ==
  /\ cyc.pc = "cCreate" /\ cyc.existing.found /\ cyc.existingSet # {}
  /\ HasRow(stories, cyc.hnId) /\ RowOf(stories, cyc.hnId).score = 3

(* The analysis or embedding call of the new story cyc.hnId fails.         *)
StoryFailureStep == cyc.pc = "sAnalyze" /\ CycleStep /\ cyc'.pc # "sUpdate"

(* C8: when the analysis or embedding of a new story fails, its row stays  *)
(* with embedded = false and analysisVersion null, one entry is appended   *)
(* to the error ring and it is the only one naming the story, the cycle    *)
(* goes on with the story's comments, and a cycle that completes has       *)
(* classified every candidate.                                             *)
C8_StoryFailureContained ==
  [][ /\ StoryFailureStep =>
            LET id == cyc.hnId
                ring == workerState'.errors
            IN  /\ HasRow(stories', id)
                /\ ~RowOf(stories', id).embedded
                /\ RowOf(stories', id).analysisVersion = NoVersion
                /\ Len(ring) = Len(workerState.errors) + 1
                /\ SubSeq(ring, 1, Len(ring) - 1) = workerState.errors
                /\ Cardinality({i \in 1..Len(ring) :
                                  ring[i].src = "story" /\ ring[i].id = id}) = 1
                /\ Len(cyc.item.kids) > 0 =>
                      (cyc'.pc = "cFetch" /\ cyc'.hnId = id)
      /\ (cyc.pc \notin {"idle", "listing"} /\ cyc'.pc = "idle") =>
            LET r == workerState'.lastRunResult[1]
            IN  r.ingested + r.skipped + r.tooOld + r.errors = Len(cyc.toProcess)
    ]_vars

(* C8 witness: the first cycle failed to analyze story 1, stored its first *)
(* comment, classified the next candidate and completed.                   *)
C8_FailedAndCompleted ==
  /\ ticks = 1 /\ cyc.pc = "idle"
  /\ 1 \in FailedStories(workerState.errors)
  /\ HasRow(comments, 11)
  /\ workerState.lastRunResult # <<>> /\ workerState.lastRunResult[1].tooOld = 1

(* C9: a story row left unanalyzed by a failed analysis is analyzed later: *)
(* once a later cycle has fetched the story again and completed, and a     *)
(* later regeneration run has made its story selection and settled, the    *)
(* row has embedded = true and an analysisVersion.                         *)
C9_FailedRecordRetried ==
  \A id \in FailedStories(workerState.errors) :
     ( /\ <<id, "cycle">> \in passedOver
       /\ <<id, "regen">> \in passedOver
       /\ cyc.pc = "idle" /\ regen.pc = "idle" )
     => /\ RowOf(stories, id).embedded
        /\ RowOf(stories, id).analysisVersion # NoVersion

(* C10: a comment the new-comments cap left behind is picked up later:     *)
(* whenever a later turn of its story ends in which the story was fetched  *)
(* with the comment still among its valid children, the comment has a row  *)
(* or the turn created as many new comments as the cap allows.             *)
C10_CapLeftPickedUp ==
  [][ \A c \in capLeft :
        ( /\ StoryTurnEnds
          /\ UpstreamItem(c).parent = cyc.hnId
          /\ \/ cyc.pc = "sFetch" /\ TooOldAfter = cyc.tooOld + 1
             \/ \E i \in 1..Len(cyc.ctoProcess) : cyc.ctoProcess[i] = c )
        => \/ HasRow(comments', c)
           \/ NewCommentsAfter - cyc.totalNewComments >= NEW_COMMENTS_BATCH
    ]_vars

(* The items a regeneration run has re-analyzed so far: those counted as   *)
(* regenerated and the one whose new analysis has returned and is being    *)
(* stored.                                                                 *)
RegenAnalyzedSoFar ==
  regen.storiesRegenerated + regen.commentsRegenerated
    + (IF regen.pc \in {"rsUpdate", "rsUpsert", "rcUpdate", "rcUpsert"}
       THEN 1 ELSE 0)

(* The cycle's error counter as it stands after a step.                    *)
ErrorsAfter ==
  IF cyc'.pc = "idle" THEN workerState'.lastRunResult[1].errors ELSE cyc'.errors

(* C11: a regeneration run with target version T selects only rows with    *)
(* embedded = true and a stored version other than T, starts analysis only *)
(* for such a row, and its steps write no other row and add or remove      *)
(* none; so a run that finds every analyzed row at T writes nothing.       *)
C11_OnlyStaleRecords ==
  [][ (regen' # regen /\ regen.pc # "idle") =>
        LET T == regen.versionFilter
            stale(row) == row.embedded /\ row.analysisVersion # T
        IN  /\ regen.pc = "rFindStories" =>
                  \A i \in 1..Len(regen'.list) :
                     stale(RowOf(stories, regen'.list[i]))
            /\ (regen.pc = "rFindComments" /\ regen'.pc # "idle") =>
                  \A i \in 1..Len(regen'.list) :
                     stale(RowOf(comments, regen'.list[i]))
            /\ (regen'.pc = "rsAnalyze" /\ (regen.pc # "rsAnalyze" \/ regen'.k # regen.k))
                  => stale(RowOf(stories, regen'.list[regen'.k]))
            /\ (regen'.pc = "rcAnalyze" /\ (regen.pc # "rcAnalyze" \/ regen'.k # regen.k))
                  => stale(RowOf(comments, regen'.list[regen'.k]))
            /\ Len(stories') = Len(stories) /\ Len(comments') = Len(comments)
            /\ \A i \in 1..Len(stories) :
                  stories'[i] # stories[i] => stale(stories[i])
            /\ \A i \in 1..Len(comments) :
                  comments'[i] # comments[i] => stale(comments[i])
    ]_vars

(* C11 witness: a run with target "5" finds the stored story already at    *)
(* "5" (an earlier run brought it there), selects no story and goes on to  *)
(* the comments with nothing regenerated.                                  *)
C11_NothingLeftToRegenerate ==
  /\ requests = 2 /\ regen.pc = "rFindComments" /\ regen.versionFilter = "5"
  /\ regen.storiesRegenerated = 0 /\ regen.errors = <<>>
  /\ \E i \in 1..Len(stories) :
        stories[i].embedded /\ stories[i].analysisVersion = "5"

C13_FailedCycleReleases ==
  [][ /\ (cyc.pc = "listing" /\ cyc'.pc = "idle") =>
            LET ring == workerState'.errors
            IN  /\ ~cycleRunning' /\ activeCycles' = 0
                /\ workerState'.currentlyProcessing = NoLabel
                /\ workerState'.cyclePhase = "null"
                /\ workerState'.running
                /\ Len(ring) >= 1 /\ ring[Len(ring)].src = "cycle"
                /\ Len(ring) = Len(workerState.errors) + 1
                      \/ Len(workerState.errors) = ERRORS_CAP
                /\ UNCHANGED storeVars
      /\ cycleRunning' <=> (cyc'.pc # "idle")
      /\ (ticks' # ticks /\ ~cycleRunning) =>
            (cycleRunning' /\ cyc'.pc = "listing" /\ activeCycles' = 1)
    ]_vars

(* C13 witness: a cycle failed at its listing fetch and a later tick has   *)
(* started the next cycle.                                                 *)
C13_NextCycleStarted ==
  /\ ticks >= 2 /\ cycleRunning /\ cyc.pc = "listing"
  /\ workerState.errors # <<>>
  /\ workerState.errors[Len(workerState.errors)].src = "cycle"
  /\ workerState.lastRunAt = -1

(* The progress measure of withRetry: it grows with every step.            *)
RetryMeasure(r) ==
  2 * r.calls + (CASE r.pc = "call" -> 1 [] r.pc = "wait" -> 0 [] OTHER -> 2)

(* C14: withRetry invokes the wrapped call at most maxRetries + 1 times    *)
(* whatever the failures are, every step brings it closer to its end, a    *)
(* pending call or backoff can always settle, and it ends by returning     *)
(* the result of its first successful call or by raising.                  *)
C14_RetryTerminates ==
  [][ /\ retry'.calls <= retry'.maxRetries + 1
      /\ (retry' # retry /\ retry.pc # "idle") =>
            /\ RetryMeasure(retry') > RetryMeasure(retry)
            /\ retry.pc \in {"call", "wait"}
      /\ retry'.pc = "returned" =>
            /\ retry.pc \in {"call", "returned"}
            /\ retry'.calls = retry'.attempt + 1
            /\ retry'.raised = NoFailure
      /\ retry'.pc = "raised" => retry'.raised # NoFailure
    ]_vars

(* C14 witness: with the default cap, four failed calls were retried and   *)
(* the fifth call succeeded.                                               *)
C14_FifthCallSucceeds ==
  /\ retry.pc = "returned" /\ retry.maxRetries = 4 /\ retry.calls = 5
  /\ Len(retry.delays) = 4

(* The failures the retry policy names: 429, 5xx, provider-named 400.      *)
NamedRetryable(f) ==
  f.status = 429 \/ f.status >= 500 \/ (f.status = 400 /\ f.provider)

(* C15: in withRetry a failure that is not 429, not 5xx and not a          *)
(* provider-named 400 is raised to the caller by the step that received    *)
(* it, with no delay added and no further call; a failure of the last      *)
(* allowed attempt is raised as it is; and whatever is raised is the       *)
(* failure of the last call made.                                          *)
C15_OtherFailuresRaised ==
  [][ /\ (retry'.calls = retry.calls + 1 /\ retry'.pc # "returned") =>
            LET f == retry'.last
            IN  /\ ~NamedRetryable(f) =>
                      /\ retry'.pc = "raised" /\ retry'.raised = f
                      /\ retry'.delays = retry.delays
                /\ retry.attempt = retry.maxRetries =>
                      (retry'.pc = "raised" /\ retry'.raised = f)
      /\ retry'.pc = "raised" =>
            (retry'.raised = retry'.last /\ retry'.calls >= 1)
      /\ retry.pc \in {"returned", "raised"} => retry' = retry
    ]_vars

(* C15 witness: the first call was rate limited and retried, the second    *)
(* timed out and that timeout was raised after the one backoff.            *)
C15_TimeoutRaisedAtOnce ==
  /\ retry.pc = "raised" /\ retry.raised.kind = "timeout"
  /\ retry.calls = 2 /\ Len(retry.delays) = 1

(* C16: fetchItem makes at most two requests and always ends by returning: *)
(* after a 429 or 5xx first response it waits the fixed delay once, makes  *)
(* one more request and returns that one's body or null; after any other   *)
(* first response it returns the body or null with no second request.      *)
C16_FetchItemRetriesOnce ==
  /\ hn.requests <= 2
  /\ hn.pc \in {"first", "backoff", "second"} =>
        ENABLED (FetchFirstSettles \/ FetchBackoffElapsed \/ FetchSecondSettles)
  /\ hn.pc = "done" =>
        LET first == hn.responses[1]
        IN  /\ hn.result \in {"item", "null"}
            /\ IF ~first.ok /\ (first.status = 429 \/ first.status >= 500)
               THEN /\ hn.requests = 2 /\ Len(hn.responses) = 2
                    /\ hn.delays = <<FETCH_BACKOFF_MS>>
                    /\ hn.result = IF hn.responses[2].ok THEN hn.responses[2].data
                                   ELSE "null"
               ELSE /\ hn.requests = 1 /\ Len(hn.responses) = 1
                    /\ hn.delays = <<>>
                    /\ hn.result = IF first.ok THEN first.data ELSE "null"

(* C16 witness: the first request was answered 503 and the retry returned  *)
(* the item.                                                               *)
C16_RetryReturnsItem ==
  /\ hn.pc = "done" /\ hn.requests = 2 /\ hn.result = "item"
  /\ hn.responses[1].status = 503

(* An upstream item that is to be excluded from processing as kind.        *)
Excluded(id, kind) ==
  FeedItem(id).deleted \/ FeedItem(id).dead \/ FeedItem(id).type # kind

(* C17: no row exists and no analysis was started for an upstream item     *)
(* that is deleted, dead or not of the expected type, story or comment.    *)
C17_FlaggedItemsExcluded ==
  /\ \A i \in 1..Len(stories) : ~Excluded(stories[i].hnId, "story")
  /\ \A i \in 1..Len(comments) : ~Excluded(comments[i].hnId, "comment")
  /\ \A id \in analysisCalls :
        ~Excluded(id, IF id \in StoryIds THEN "story" ELSE "comment")

(* C18: every step at which the analysis of a new story or comment fails   *)
(* appends an entry to the error ring and leaves the item's row without    *)
(* analysis fields.                                                        *)
C18_AnalysisFailureLogged ==
  [][ (CycleStep /\ cyc.pc \in {"sAnalyze", "cAnalyze"}
         /\ cyc'.pc \notin {"sUpdate", "cUpdate"}) =>
        LET table == IF cyc.pc = "sAnalyze" THEN stories' ELSE comments'
            id == IF cyc.pc = "sAnalyze" THEN cyc.hnId ELSE cyc.ctoProcess[cyc.ck]
        IN  /\ Len(workerState'.errors) = Len(workerState.errors) + 1
            /\ workerState'.errors[Len(workerState'.errors)].id = id
            /\ HasRow(table, id)
            /\ ~RowOf(table, id).embedded
            /\ RowOf(table, id).analysisVersion = NoVersion
    ]_vars

(* C19: when Comment.create meets a row with the same hnId, the table      *)
(* stays as it is with one row for that id, the comment is not counted as  *)
(* new, nothing is raised (no cycle error, no ring entry) and the loop     *)
(* goes on to the next comment or ends the turn.                           *)
C19_DuplicateInsertSwallowed ==
  [][ /\ \A i, j \in 1..Len(comments') :
            comments'[i].hnId = comments'[j].hnId => i = j
      /\ (CycleStep /\ cyc.pc = "cCreate"
            /\ HasRow(comments, cyc.ctoProcess[cyc.ck])) =>
            /\ comments' = comments
            /\ workerState'.errors = workerState.errors
            /\ ErrorsAfter = cyc.errors
            /\ IF StoryTurnEnds
               THEN NewCommentsAfter - cyc.totalNewComments = cyc.newComments
               ELSE /\ cyc'.newComments = cyc.newComments
                    /\ cyc'.commentsProcessed = cyc.commentsProcessed + 1
                    /\ cyc'.pc = "cCreate" /\ cyc'.ck > cyc.ck
    ]_vars

(* C19 witness: the first cycle has completed with more comments processed *)
(* than rows stored, none having existed before: one insert met the row of *)
(* the same id.                                                            *)
C19_DuplicateMet ==
  /\ ticks = 1 /\ cyc.pc = "idle" /\ workerState.lastRunResult # <<>>
  /\ workerState.lastRunResult[1].commentsProcessed > Len(comments)
  /\ Len(comments) >= 1

(* C20: the error list never holds more than 50 entries, and every entry   *)
(* added goes last behind the entries already there, in their order, less  *)
(* the oldest one when the list was full.                                  *)
C20_ErrorRingBounded ==
  [][ /\ Len(workerState'.errors) <= ERRORS_CAP
      /\ workerState'.errors # workerState.errors =>
            LET old == workerState.errors
                new == workerState'.errors
            IN  new = (IF Len(old) = ERRORS_CAP THEN Tail(old) ELSE old)
                        \o <<new[Len(new)]>>
    ]_vars

(* C20 witness: the list is full, and the story failure that filled it has *)
(* moved up one place behind a later cycle failure.                        *)
C20_OldestDropped ==
  /\ Len(workerState.errors) = ERRORS_CAP
  /\ workerState.errors[ERRORS_CAP].src = "cycle"
  /\ workerState.errors[ERRORS_CAP - 1].src = "story"

(* A string as the claims describe a clean one: no whitespace at either    *)
(* end and no two whitespace characters in a row.                          *)
NoStraySpace(str) ==
  /\ str # <<>> => (~IsSpace(str[1]) /\ ~IsSpace(str[Len(str)]))
  /\ \A i \in 1..(Len(str) - 1) : ~(IsSpace(str[i]) /\ IsSpace(str[i + 1]))

(* A "<" with a ">" somewhere after it.                                    *)
HasTag(str) ==
  \E i, j \in 1..Len(str) : i < j /\ str[i] = "<" /\ str[j] = ">"

(* A concept string in normal form.                                        *)
NormalConcept(c) ==
  /\ c # <<>>
  /\ \A i \in 1..Len(c) : c[i] \notin {"A", "_"}
  /\ NoStraySpace(c)

(* C21: every concept string a processing site stores, in the record or in *)
(* the vector-index entry, is non-empty, lowercase, free of underscores    *)
(* and free of leading, trailing and doubled whitespace.                   *)
C21_StoredConceptsNormal ==
  text.pc = "stored" =>
    /\ \A i \in 1..Len(text.record) : NormalConcept(text.record[i])
    /\ \A i \in 1..Len(text.index) : NormalConcept(text.index[i])

(* C22: the result of stripHtml has no whitespace at either end and no two *)
(* whitespace characters in a row; the tags of the input are gone after    *)
(* the first replacement, so the result holds a tag only where entities    *)
(* were decoded; and a null, undefined or empty input gives "".            *)
C22_StripHtmlClean ==
  text.pc = "stripped" =>
    /\ NoStraySpace(text.out)
    /\ ~HasTag(text.untagged)
    /\ (\A i \in 1..Len(text.html.chars) : text.html.chars[i] # "&")
          => ~HasTag(text.out)
    /\ (text.html.null \/ text.html.chars = <<>>) => text.out = <<>>

(* C22 witness: an input with a tag, an entity and whitespace at its end   *)
(* gives a non-empty result.                                               *)
C22_TagEntityAndSpace ==
  /\ text.pc = "stripped" /\ HasTag(text.html.chars)
  /\ \E i \in 1..Len(text.html.chars) : text.html.chars[i] = "&"
  /\ IsSpace(text.html.chars[Len(text.html.chars)])
  /\ text.out # <<>>

(* C26: the delay before a retry is given by the kind of the failure and   *)
(* the attempt number k: max(Retry-After x 1000, 3000 x 2^k) ms and so at  *)
(* least the server's Retry-After for a 429, 2000 x 2^k ms for a 5xx,      *)
(* 2000 x (k + 1) ms for a provider-named 400; nothing else is retried.    *)
C26_BackoffByKind ==
  [][ (retry.pc = "call" /\ retry'.pc = "wait") =>
        LET f == retry'.last
            k == retry.attempt
            d == retry'.delays[Len(retry'.delays)]
        IN  /\ k < retry.maxRetries
            /\ Len(retry'.delays) = Len(retry.delays) + 1
            /\ CASE f.status = 429 ->
                      /\ d = Max(f.retryAfter * 1000, 3000 * Pow2(k))
                      /\ d >= f.retryAfter * 1000
                 [] f.status >= 500 -> d = 2000 * Pow2(k)
                 [] f.status = 400 -> f.provider /\ d = 2000 * (k + 1)
                 [] OTHER -> FALSE
    ]_vars

(* C27: fetchItems never has more than BATCH_SIZE requests in flight, all  *)
(* of them of one chunk, every request of the chunks before has settled;   *)
(* and the list returned has the length of ids and holds at each position  *)
(* the item of the id at that position, or null where the fetch gave null. *)
C27_FetchItemsChunked ==
  /\ Cardinality(batch.pending) <= BATCH_SIZE
  /\ \A p \in batch.pending : batch.i < p /\ p <= batch.i + BATCH_SIZE
  /\ batch.pc = "waiting" =>
        /\ batch.pending # {}
        /\ Len(batch.results) = batch.i
        /\ \A q \in 1..batch.i : \E r \in {"item", "null"} : <<q, r>> \in batch.settled
  /\ batch.pc = "returned" =>
        /\ batch.pending = {}
        /\ Len(batch.results) = Len(batch.ids)
        /\ \A p \in 1..Len(batch.ids) :
              batch.results[p] = IF <<p, "item">> \in batch.settled
                                 THEN batch.ids[p] ELSE 0

(* C27 witness: five ids were fetched in three chunks; the second and the  *)
(* fourth came back null and the others are at their positions.            *)
C27_NullsInPlace ==
  /\ batch.pc = "returned" /\ Len(batch.ids) = 5
  /\ batch.results = <<101, 0, 103, 0, 105>>

(* The cycle is inside processStoryComments for the candidate cyc.hnId.    *)
InCommentPass == cyc.pc \in {"cFetch", "cFindAll", "cCreate", "cAnalyze",
                             "cUpdate", "cUpsert"}

(* The comments of the current story that the current pass has created:    *)
(* those of toProcess that had no row at the pass's findAll and have one.  *)
CreatedThisPass ==
  {cyc.ctoProcess[j] : j \in {i \in 1..Len(cyc.ctoProcess) :
       /\ cyc.ctoProcess[i] \notin cyc.existingSet
       /\ HasRow(comments, cyc.ctoProcess[i])}}

(* C23: a candidate whose story record exists when its turn comes is not   *)
(* counted as too old or as an error by the step that receives its         *)
(* upstream item, whatever the item's age: it goes on to the cached        *)
(* refresh, after which its comment pass is entered.                       *)
C23_ExistingIsCached ==
  [][ /\ (CycleStep /\ cyc.pc = "sFetch" /\ cyc.existing.found
            /\ now' - FeedItem(cyc.hnId).time > MAX_AGE_HOURS) =>
            /\ TooOldAfter = cyc.tooOld
            /\ ErrorsAfter = cyc.errors
            /\ cyc'.pc = "sCached"
      /\ (CycleStep /\ cyc.pc = "sCached") => cyc.hnId \in commentPass'
    ]_vars

(* C24: in one comment pass at most NEW_COMMENTS_BATCH comment records are *)
(* created and at most that many of them are sent to analysis, and those   *)
(* created are the first comments of the child order that had no record.   *)
C24_NewCommentsCapped ==
  (InCommentPass /\ cyc.pc \notin {"cFetch", "cFindAll"}) =>
    /\ Cardinality(CreatedThisPass) <= NEW_COMMENTS_BATCH
    /\ Cardinality({c \in CreatedThisPass :
                      RowOf(comments, c).textLen > MIN_COMMENT_LENGTH})
          <= NEW_COMMENTS_BATCH
    /\ \A i, j \in 1..Len(cyc.ctoProcess) :
          (i < j /\ cyc.ctoProcess[j] \in CreatedThisPass
             /\ cyc.ctoProcess[i] \notin cyc.existingSet)
          => cyc.ctoProcess[i] \in CreatedThisPass

(* C25: the candidates of a cycle are the top listing followed by the new  *)
(* listing's other ids, each once, and are taken in that order one at a    *)
(* time; a comment pass runs only for the current candidate and only when  *)
(* its story record exists; a comment record is created only inside that   *)
(* pass, under the current candidate's id; so every comment record's       *)
(* storyHnId is the hnId of a story record.                                *)
C25_StoryBeforeItsComments ==
  [][ /\ \A i, j \in 1..Len(cyc'.toProcess) :
            cyc'.toProcess[i] = cyc'.toProcess[j] => i = j
      /\ (cyc.pc = "listing" /\ cyc'.pc # "idle" /\ CycleStep) =>
            /\ \E top \in TopListings, new \in NewListings :
                  /\ SubSeq(cyc'.toProcess, 1, Len(top)) = top
                  /\ \A i \in 1..Len(new) :
                        \E j \in 1..Len(cyc'.toProcess) : cyc'.toProcess[j] = new[i]
                  /\ \A j \in (Len(top) + 1)..Len(cyc'.toProcess) :
                        \E i \in 1..Len(new) : new[i] = cyc'.toProcess[j]
            /\ cyc'.idx = 1
      /\ (cyc'.pc \notin {"idle", "listing"}) =>
            /\ cyc'.hnId = cyc'.toProcess[cyc'.idx]
            /\ cyc'.toProcess = cyc.toProcess => cyc'.idx \in {cyc.idx, cyc.idx + 1}
      /\ (cyc'.idx # cyc.idx /\ cyc'.pc # "idle") => cyc'.pc = "sFind"
      /\ (cyc'.pc \in {"cFetch", "cFindAll", "cCreate", "cAnalyze", "cUpdate",
                       "cUpsert"}) =>
            /\ cyc'.item.id = cyc'.hnId
            /\ HasRow(stories', cyc'.hnId)
      /\ comments' # comments =>
            \/ /\ cyc.pc = "cCreate"
               /\ Len(comments') = Len(comments) + 1
               /\ comments'[Len(comments')].storyHnId = cyc.hnId
               /\ SubSeq(comments', 1, Len(comments)) = comments
            \/ Len(comments') = Len(comments)
      /\ \A i \in 1..Len(comments') : HasRow(stories', comments'[i].storyHnId)
    ]_vars

(* C25 witness: in one cycle the first candidate's comments were stored    *)
(* and the cycle has moved on to its second candidate.                     *)
C25_SecondCandidateAfterComments ==
  /\ ticks = 1 /\ cyc.idx = 2 /\ cyc.pc = "sFetch"
  /\ \E i \in 1..Len(comments) : comments[i].storyHnId = cyc.toProcess[1]

(* C28: every record with embedded = true whose processing is not in       *)
(* progress has an entry in the vector-index collection of its kind.       *)
C28_EmbeddedHasIndexEntry ==
  /\ \A i \in 1..Len(stories) :
        (stories[i].embedded /\ stories[i].hnId \notin CycleInFlight)
           => stories[i].hnId \in storyIndex
  /\ \A i \in 1..Len(comments) :
        (comments[i].embedded /\ comments[i].hnId \notin CycleInFlight)
           => comments[i].hnId \in commentIndex

(* C29: when the first cycle has completed, totalProcessed equals the      *)
(* number of its candidates, and while it runs totalProcessed never        *)
(* exceeds the number of candidates taken up.                              *)
C29_OnePerCandidate ==
  /\ (ticks = 1 /\ cyc.pc = "idle" /\ workerState.lastRunResult # <<>>) =>
        workerState.totalProcessed = workerState.cycleTotal
  /\ (ticks = 1 /\ cyc.pc \notin {"idle", "listing"}) =>
        workerState.totalProcessed <= workerState.cycleCurrent

====
